---------------------------- MODULE Spec2Model ----------------------------
(***************************************************************************)
(* AsyncWebConsole (src/src/AsyncWebConsole.cpp, AsyncWebConsole.h): the   *)
(* log pipeline of an embedded web console.  Producers enqueue owned text  *)
(* buffers into a bounded FreeRTOS queue; one drain task pops them,        *)
(* normalises them, writes them into a circular byte backlog and hands     *)
(* them to the WebSocket batcher.                                          *)
(*                                                                         *)
(* Text is a sequence of one-character strings.  The specifications are   *)
(* given over the same variables:                                          *)
(*   SpecRing   the backlog ring alone, pushLineToBuffer on any line;      *)
(*   SpecBatch  the batcher alone, _queueWsBroadcast/_flushWsBroadcast on  *)
(*              any chunk with the transport changing underneath;          *)
(*   Spec       the whole pipeline, producers to subscribers;              *)
(*   SpecCmd    the command registry and the dispatch of a line;           *)
(*   SpecBridge the structured log bridge and its level filter;            *)
(*   SpecFile   the log file and its rotation;                             *)
(*   SpecLock   the batch state entered from two contexts;                 *)
(*   SpecNotice a flush whose two transport tests are separate steps;      *)
(*   SpecEts    the raw-character bridge;                                  *)
(*   SpecDrain  the consumer and its four sinks, step by step;             *)
(*   SpecHandle producers inside _enqueueRaw while setConfig runs.         *)
(***************************************************************************)
EXTENDS Integers, Sequences, FiniteSets, TLC

VARIABLES
    logbuf,          \* _logbuf: the circular byte buffer, index 0.._bufCap-1
    bufCap,          \* _bufCap
    used,            \* _used
    head,            \* _head
    pushed,          \* history: the last _bufCap bytes of everything pushed
    lastLine,        \* history: the argument of the latest pushLineToBuffer
    cfg,             \* _cfg (the fields the pipeline reads)
    wsBatch,         \* _wsBatch
    wsDropPending,   \* _wsDropPending
    wsDropMessage,   \* _wsDropMessage
    lastWsFlushMs,   \* _lastWsFlushMs
    clients,         \* the connected WebSocket clients; _ws.count() is their number
    wsFree,          \* broadcasts every client queue still accepts
    now,             \* millis()
    qLive,           \* _q != nullptr
    qCap,            \* the length the queue was created with
    qItems,          \* the LogMsg buffers in the queue, oldest first
    task,            \* _task != nullptr
    pc,              \* where the drain task is in _drainTask/_processLine
    cur,             \* msg.data, the buffer the drain task holds
    payload,         \* the payload _processLine built from it
    mtx,             \* who holds _mtx: "free", "drain" or "ws"
    tpc,             \* where the transport context is in a connect event
    tcli,            \* the client that event is about
    apc,             \* where the application is in setConfig
    wasEnabled,      \* its local wasEnabled
    nextId,          \* history: the number of the next message created
    seen,            \* history: per client, the lines delivered, by number
    scTrace,         \* history: the steps of the latest setConfig, in order
    discarded,       \* history: the messages lost with a deleted queue
    cmds,            \* _cmds[0.._cmdCount-1], the command registry
    files,           \* the file system: 0 is filePath, i is filePath.i
    lk,              \* the batch state each context found on entering its
                     \* unlocked batch code, while it is inside
    lbuf,            \* the static line buffer of _etsPutcHook
    li,              \* its static index
    etsHist,         \* history: the characters given to the hook, the
                     \* buffers it built, whether memory or the queue failed
    sunk,            \* history: the message the drain task holds as it was
                     \* queued, and the payload each sink got for it so far
    prod,            \* a producer inside _enqueueRaw: where it is, its
                     \* buffer, and whether the queue it found was deleted
    op               \* history: what the latest step did

ringVars == <<logbuf, bufCap, used, head, pushed, lastLine>>
batchVars == <<wsBatch, wsDropPending, wsDropMessage, lastWsFlushMs>>

queueVars == <<qLive, qCap, qItems>>
drainVars == <<task, pc, cur, payload, mtx>>
connVars == <<tpc, tcli>>
appVars == <<apc, wasEnabled, scTrace>>
histVars == <<nextId, seen, discarded>>
pipeVars == <<queueVars, drainVars, connVars, appVars, histVars>>
etsVars == <<lbuf, li, etsHist>>
sideVars == <<cmds, files, lk, etsVars, sunk, prod>>

vars == <<logbuf, bufCap, used, head, pushed, lastLine, cfg, wsBatch,
          wsDropPending, wsDropMessage, lastWsFlushMs, clients, wsFree, now,
          qLive, qCap, qItems, task, pc, cur, payload, mtx, tpc, tcli, apc,
          wasEnabled, nextId, seen, scTrace, discarded, cmds, files, lk, lbuf,
          li, etsHist, sunk, prod, op>>

-----------------------------------------------------------------------------
(* Bounds of the model *)

\* largest backlog capacity (backlogBytes) tried by SpecRing
MaxBufCap == 3
\* longest line pushed by SpecRing
MaxPush == 4
\* most letters in a chunk handed to the batcher by SpecBatch
MaxChunk == 4
\* the transport accepts at most this many broadcasts before it must drain
MaxFree == 2
\* the clock stops here
MaxNow == 3
\* messages created by the producers of Spec
MaxMsgs == 2
\* backlogBytes of the console Spec constructs
BacklogBytes == 3
\* the largest maxFiles a Config of SpecFile has
MaxRotated == 2
\* registry slots filled with varied entries; the later ones get one filler
VariedCmds == 2
\* the lines handed to the file log in SpecFile
MaxAppends == 6
\* the most tokens a dispatched command line has
MaxTokens == 13
\* the characters given to _etsPutcHook in SpecEts
MaxPutc == 5

-----------------------------------------------------------------------------
(* Text *)

NL == "\n"

\* a byte of malloc'ed memory that was never written
Garbage == "?"

Min(a, b) == IF a < b THEN a ELSE b

\* the last n elements of s (all of s when it is shorter)
LastN(s, n) == IF Len(s) <= n THEN s ELSE SubSeq(s, Len(s) - n + 1, Len(s))

\* s without its first n elements (String::remove(0, n))
DropN(s, n) == IF n >= Len(s) THEN <<>> ELSE SubSeq(s, n + 1, Len(s))

\* all texts over alphabet A of length at most n
TextsUpTo(A, n) == UNION {[1..k -> A] : k \in 0..n}

IsSuffix(s, t) == Len(s) <= Len(t) /\ s = LastN(t, Len(s))

-----------------------------------------------------------------------------
(* RingBacklog: pushLineToBuffer, and the read loop of sendBacklog *)

\* memcpy(dst + at, src, n) for n bytes that fit without wrapping
MemCpy(buf, at, src, from, n) ==
    [i \in DOMAIN buf |->
        IF i >= at /\ i < at + n THEN src[from + (i - at) + 1] ELSE buf[i]]

\* pushLineToBuffer advanced _head one slot too far when evicting
PushLineOffByOne(r, s) ==
    LET sl == Len(s)
        cap == r.bufCap
    IN  IF cap = 0 THEN r
        ELSE IF sl >= cap
        THEN [r EXCEPT !.logbuf = MemCpy(r.logbuf, 0, s, sl - cap, cap),
                       !.head = 0, !.used = cap]
        ELSE LET need0 == IF r.used + sl > cap THEN (r.used + sl) - cap ELSE 0
                 need == Min(need0, r.used)
                 head1 == (r.head + need + 1) % cap
                 used1 == r.used - need
                 tail == (head1 + used1) % cap
                 first == Min(sl, cap - tail)
                 b1 == MemCpy(r.logbuf, tail, s, 0, first)
                 b2 == IF first < sl THEN MemCpy(b1, 0, s, first, sl - first) ELSE b1
             IN  [r EXCEPT !.logbuf = b2, !.head = head1, !.used = used1 + sl]

\* pushLineToBuffer kept _head where it was in the full-overwrite case
PushLineKeepHead(r, s) ==
    LET sl == Len(s)
        cap == r.bufCap
    IN  IF cap = 0 THEN r
        ELSE IF sl >= cap
        THEN [r EXCEPT !.logbuf = MemCpy(r.logbuf, 0, s, sl - cap, cap),
                       !.used = cap]
        ELSE LET need0 == IF r.used + sl > cap THEN (r.used + sl) - cap ELSE 0
                 need == Min(need0, r.used)
                 head1 == (r.head + need) % cap
                 used1 == r.used - need
                 tail == (head1 + used1) % cap
                 first == Min(sl, cap - tail)
                 b1 == MemCpy(r.logbuf, tail, s, 0, first)
                 b2 == IF first < sl THEN MemCpy(b1, 0, s, first, sl - first) ELSE b1
             IN  [r EXCEPT !.logbuf = b2, !.head = head1, !.used = used1 + sl]

\* pushLineToBuffer(s) on the ring r = [logbuf, bufCap, head, used]
PushLine(r, s) ==
    LET sl == Len(s)
        cap == r.bufCap
    IN  IF cap = 0 THEN r
        ELSE IF sl >= cap
        THEN [r EXCEPT !.logbuf = MemCpy(r.logbuf, 0, s, sl - cap, cap),
                       !.head = 0, !.used = cap]
        ELSE LET need0 == IF r.used + sl > cap THEN (r.used + sl) - cap ELSE 0
                 need == Min(need0, r.used)
                 head1 == (r.head + need) % cap
                 used1 == r.used - need
                 tail == (head1 + used1) % cap
                 first == Min(sl, cap - tail)
                 b1 == MemCpy(r.logbuf, tail, s, 0, first)
                 b2 == IF first < sl THEN MemCpy(b1, 0, s, first, sl - first) ELSE b1
             IN  [r EXCEPT !.logbuf = b2, !.head = head1, !.used = used1 + sl]

\* the blob sendBacklog builds: _logbuf[(_head + i) % _bufCap] for i < _used
Snapshot(r) ==
    IF r.bufCap = 0 \/ r.used = 0 THEN <<>>
    ELSE [i \in 1..r.used |-> r.logbuf[(r.head + (i - 1)) % r.bufCap]]

Ring == [logbuf |-> logbuf, bufCap |-> bufCap, head |-> head, used |-> used]

\* the constructor: malloc(backlogBytes), _used = _head = 0
NewRing(cap) == [logbuf |-> [i \in 0..(cap - 1) |-> Garbage], bufCap |-> cap,
                 head |-> 0, used |-> 0]

SetRing(r) ==
    /\ logbuf' = r.logbuf
    /\ bufCap' = r.bufCap
    /\ head' = r.head
    /\ used' = r.used

RingLetters == {"a", "b"}

\* a configuration scaled to the model: a queue of 2 messages, batches of 4
\* bytes flushed every 2 ms
DefaultCfg == [queueLen |-> 2, timestamps |-> FALSE, maxLineLen |-> 0,
               wsBatchMaxBytes |-> 4, wsFlushIntervalMs |-> 2]

\* the history record of a step: the operation, the transport writes it
\* issued, the _trimWsBatch calls it made, the batch bytes it threw away, and
\* the batch, the transport room and the pending notice it started from
NoOp == [name |-> "none", out |-> <<>>, trims |-> <<>>, lost |-> 0,
         batch0 |-> <<>>, free0 |-> 0, pend0 |-> FALSE, count0 |-> 0,
         chunk |-> <<>>, force |-> FALSE,
         ret |-> FALSE, freed |-> FALSE, q0 |-> <<>>, cap0 |-> 0,
         live0 |-> FALSE, was |-> FALSE, trace |-> <<>>,
         raw |-> <<>>, argv |-> <<>>, reply |-> <<>>, hit |-> 0,
         cmds0 |-> <<>>, files0 |-> <<>>, level |-> 0]

\* the clients the model connects
Clients == {1}

\* the pipeline at rest, for the specifications that do not run it
PipeIdle ==
    /\ qLive = TRUE
    /\ qCap = DefaultCfg.queueLen
    /\ qItems = <<>>
    /\ task = TRUE
    /\ pc = "wait"
    /\ cur = <<>>
    /\ payload = <<>>
    /\ mtx = "free"
    /\ tpc = "idle"
    /\ tcli = 0
    /\ apc = "idle"
    /\ wasEnabled = FALSE
    /\ nextId = 1
    /\ seen = [c \in Clients |-> <<>>]
    /\ scTrace = <<>>
    /\ discarded = {}

\* no file of the log exists
Absent == <<"absent">>

\* the file system before the first append: filePath and filePath.1 ..
\* filePath.(MaxRotated + 1) do not exist
NoFiles == [i \in 0..(MaxRotated + 1) |-> Absent]

\* the command registry and the file system at rest
\* neither context is inside its batch code
NoLk == [drain |-> <<>>, conn |-> <<>>]

\* sizeof(lbuf) of _etsPutcHook, scaled down from 256
LbufSize == 4

\* the character '\0'
NUL == "NUL"

\* no character was given to _etsPutcHook yet
NoEts == [in |-> <<>>, out |-> <<>>, ok |-> TRUE]

\* the drain task holds no message
NoSunk == [orig |-> <<>>, extended |-> FALSE, events |-> <<>>]

\* no producer is inside _enqueueRaw
NoProd == [pc |-> "idle", data |-> <<>>, isr |-> FALSE, stale |-> FALSE]

SideIdle ==
    /\ cmds = <<>>
    /\ files = NoFiles
    /\ lk = NoLk
    /\ lbuf = [i \in 1..LbufSize |-> NUL]
    /\ li = 0
    /\ etsHist = NoEts
    /\ sunk = NoSunk
    /\ prod = NoProd

InitRing ==
    /\ \E cap \in 1..MaxBufCap :
          /\ logbuf = NewRing(cap).logbuf
          /\ bufCap = cap
    /\ used = 0
    /\ head = 0
    /\ pushed = <<>>
    /\ lastLine = <<>>
    /\ cfg = DefaultCfg
    /\ wsBatch = <<>>
    /\ wsDropPending = FALSE
    /\ wsDropMessage = <<>>
    /\ lastWsFlushMs = 0
    /\ clients = {}
    /\ wsFree = MaxFree
    /\ now = 1
    /\ PipeIdle
    /\ SideIdle
    /\ op = NoOp

\* one call of pushLineToBuffer with an arbitrary line
RingPush ==
    \E s \in TextsUpTo(RingLetters, MaxPush) :
        /\ SetRing(PushLine(Ring, s))
        /\ pushed' = LastN(pushed \o s, bufCap)
        /\ lastLine' = s
        /\ op' = NoOp
        /\ UNCHANGED <<sideVars, pipeVars, cfg, batchVars, clients, wsFree, now>>

NextRing == RingPush

SpecRing == InitRing /\ [][NextRing]_vars

-----------------------------------------------------------------------------
(* BroadcastBatcher: _trimWsBatch, _sendPendingWsDrop, _flushWsBroadcast,  *)
(* _queueWsBroadcast.  The operators work on a record b of the batch state *)
(*   batch, dropPending, dropMsg, last   _wsBatch, _wsDropPending,         *)
(*                                       _wsDropMessage, _lastWsFlushMs    *)
(*   free    how many more broadcasts every client queue accepts;          *)
(*           _ws.availableForWriteAll() is free > 0                        *)
(*   out     the transport writes issued so far by the running handler     *)
(*   trims, lost   history of the running handler (see QueueWsBroadcast)   *)
(* and on an environment record e = [max, interval, count, now]:           *)
(* _cfg.wsBatchMaxBytes, _cfg.wsFlushIntervalMs, _ws.count(), millis().    *)

\* String::indexOf(ch, from): 0-based position of the first ch at or after
\* from, -1 when there is none
IndexOf(s, ch, from) ==
    LET hits == {i \in from..(Len(s) - 1) : s[i + 1] = ch}
    IN  IF hits = {} THEN -1 ELSE CHOOSE i \in hits : \A j \in hits : i <= j

DigitChar(d) == <<"0", "1", "2", "3", "4", "5", "6", "7", "8", "9">>[d + 1]

\* String += unsigned: the decimal digits of n
RECURSIVE Decimal(_)
Decimal(n) == IF n < 10 THEN <<DigitChar(n)>>
              ELSE Decimal(n \div 10) \o <<DigitChar(n % 10)>>

DropPrefix ==
    <<"[", "A", "s", "y", "n", "c", "W", "e", "b", "C", "o", "n", "s", "o", "l",
      "e", "]", " ", "W", "S", " ", "b", "a", "t", "c", "h", " ", "o", "v", "e",
      "r", "f", "l", "o", "w", ",", " ", "d", "r", "o", "p", "p", "e", "d", " ">>

DropSuffix == <<" ", "b", "y", "t", "e", "s", NL>>

\* the text _trimWsBatch builds in _wsDropMessage
DropNotice(n) == DropPrefix \o Decimal(n) \o DropSuffix

\* _ws.textAll(text): one transport write.  It is delivered when every client
\* queue has room and is discarded by the transport otherwise.
TextAll(b, kind, text) ==
    [b EXCEPT !.out = Append(@, [kind |-> kind, text |-> text, ok |-> b.free > 0]),
              !.free = IF @ > 0 THEN @ - 1 ELSE 0]

\* the while loop of _trimWsBatch: the new removeUpTo, or -1 when indexOf
\* finds no newline
RECURSIVE TrimScan(_, _, _)
TrimScan(batch, removeUpTo, remaining) ==
    IF remaining = 0 \/ removeUpTo >= Len(batch) THEN removeUpTo
    ELSE LET newlinePos == IndexOf(batch, NL, removeUpTo)
         IN  IF newlinePos < 0 THEN -1
             ELSE LET segment == newlinePos + 1 - removeUpTo
                  IN  IF segment >= remaining THEN newlinePos + 1
                      ELSE TrimScan(batch, newlinePos + 1, remaining - segment)

\* _trimWsBatch removed exactly dropBytes, wherever that falls
TrimWsBatchExact(b, dropBytes) ==
    IF Len(b.batch) = 0 \/ dropBytes = 0 THEN b
    ELSE IF dropBytes >= Len(b.batch) THEN [b EXCEPT !.batch = <<>>]
    ELSE [b EXCEPT !.dropMsg = DropNotice(dropBytes),
                   !.dropPending = TRUE,
                   !.batch = DropN(b.batch, dropBytes)]

\* _trimWsBatch(dropBytes)
TrimWsBatch(b, dropBytes) ==
    IF Len(b.batch) = 0 \/ dropBytes = 0 THEN b
    ELSE IF dropBytes >= Len(b.batch) THEN [b EXCEPT !.batch = <<>>]
    ELSE LET removeUpTo == TrimScan(b.batch, 0, dropBytes)
         IN  IF removeUpTo < 0 THEN [b EXCEPT !.batch = <<>>]
             ELSE [b EXCEPT !.dropMsg = DropNotice(removeUpTo),
                            !.dropPending = TRUE,
                            !.batch = IF removeUpTo >= Len(b.batch) THEN <<>>
                                      ELSE DropN(b.batch, removeUpTo)]

\* _sendPendingWsDrop(now)
SendPendingWsDrop(b, t) ==
    IF ~b.dropPending \/ Len(b.dropMsg) = 0 THEN b
    ELSE IF b.free = 0 THEN b
    ELSE [TextAll(b, "drop", b.dropMsg) EXCEPT !.dropPending = FALSE,
                                               !.dropMsg = <<>>,
                                               !.last = t]

\* the time-based flush waited for only after more than the interval
ShouldFlushLate(b, force, e) ==
    \/ force
    \/ e.interval = 0
    \/ (e.now - b.last) > e.interval
    \/ Len(b.batch) >= e.max

\* the shouldFlush decision of _flushWsBroadcast
ShouldFlush(b, force, e) ==
    \/ force
    \/ e.interval = 0
    \/ (e.now - b.last) >= e.interval
    \/ Len(b.batch) >= e.max

\* _flushWsBroadcast gave the batch up when the transport had no room
FlushWsBroadcastDropping(b, force, e) ==
    IF Len(b.batch) = 0 THEN b
    ELSE IF e.count = 0 THEN [b EXCEPT !.batch = <<>>]
    ELSE LET b1 == IF b.last = 0 THEN [b EXCEPT !.last = e.now] ELSE b
             b2 == SendPendingWsDrop(b1, e.now)
         IN  IF ~ShouldFlush(b1, force, e) THEN b2
             ELSE IF b2.free = 0 THEN [b2 EXCEPT !.batch = <<>>]
             ELSE [TextAll(b2, "batch", b2.batch) EXCEPT !.batch = <<>>,
                                                         !.last = e.now]

\* _flushWsBroadcast(force)
FlushWsBroadcast(b, force, e) ==
    IF Len(b.batch) = 0 THEN b
    ELSE IF e.count = 0 THEN [b EXCEPT !.batch = <<>>]
    ELSE LET b1 == IF b.last = 0 THEN [b EXCEPT !.last = e.now] ELSE b
             b2 == SendPendingWsDrop(b1, e.now)
         IN  IF ~ShouldFlush(b1, force, e) THEN b2
             ELSE IF b2.free = 0 THEN b2
             ELSE [TextAll(b2, "batch", b2.batch) EXCEPT !.batch = <<>>,
                                                         !.last = e.now]

\* _ws.textAll(src) of a chunk sent at once, and the timestamp update after it
SendNow(b, src, t) == [TextAll(b, "line", src) EXCEPT !.last = t]

\* the oversized chunk was appended whole
ClipChunkNone(src, max) == src

\* lines 322-325: an incoming chunk longer than wsBatchMaxBytes is cut to its
\* trailing wsBatchMaxBytes
ClipChunk(src, max) == IF Len(src) > max THEN LastN(src, max) ELSE src

\* _queueWsBroadcast from the wsBatchMaxBytes test on (lines 304-343), reached
\* with the stale canSendNow of line 283.  heap[1], heap[2]: whether the first
\* and the second _wsBatch.concat find memory.
\* History: each call of _trimWsBatch is recorded in trims as [B, d, T, n]
\* (batch before, drop amount, batch after, incoming length) and the bytes of
\* batch text thrown away by the overflow resolution are added to lost.
QueueTail(b, src, canSendNow, e, heap) ==
    IF e.max = 0
    THEN IF Len(b.batch) = 0 /\ canSendNow THEN SendNow(b, src, e.now)
         ELSE [b EXCEPT !.batch = src]
    ELSE LET over1 == Len(b.batch) + Len(src) > e.max
             b5 == IF over1 /\ canSendNow THEN FlushWsBroadcast(b, TRUE, e) ELSE b
             over2 == over1 /\ Len(b5.batch) + Len(src) > e.max
             overflow == (Len(b5.batch) + Len(src)) - e.max
             b6 == IF over2 THEN TrimWsBatch(b5, overflow) ELSE b5
             src1 == IF over2 THEN ClipChunk(src, e.max) ELSE src
             b7 == IF over2 /\ Len(b6.batch) + Len(src1) > e.max
                   THEN [b6 EXCEPT !.batch = <<>>] ELSE b6
             b7h == IF over2
                    THEN [b7 EXCEPT !.trims = Append(@, [B |-> b5.batch, d |-> overflow,
                                                         T |-> b6.batch, n |-> Len(src)]),
                                    !.lost = @ + (Len(b5.batch) - Len(b7.batch))]
                    ELSE b7
             b8 == IF heap[1] THEN [b7h EXCEPT !.batch = @ \o src1]
                   ELSE LET f == IF canSendNow THEN FlushWsBroadcast(b7h, TRUE, e)
                                 ELSE b7h
                        IN  IF heap[2] THEN [f EXCEPT !.batch = @ \o src1]
                            ELSE [f EXCEPT !.batch = src1]
         IN  FlushWsBroadcast(b8, canSendNow, e)

\* _queueWsBroadcast(data, len)
QueueWsBroadcast(b, data, e, heap) ==
    IF Len(data) = 0 \/ e.count = 0 THEN b
    ELSE LET b1 == IF b.last = 0 THEN [b EXCEPT !.last = e.now] ELSE b
             b2 == IF b1.free > 0 THEN SendPendingWsDrop(b1, e.now) ELSE b1
             canSendNow == b1.free > 0 /\ b2.free > 0
         IN  IF canSendNow /\ Len(b2.batch) = 0 THEN SendNow(b2, data, e.now)
             ELSE IF canSendNow
             THEN LET b3 == FlushWsBroadcast(b2, TRUE, e)
                      b4 == IF b3.free > 0 THEN SendPendingWsDrop(b3, e.now) ELSE b3
                  IN  IF b3.free > 0 /\ b4.free > 0 THEN SendNow(b4, data, e.now)
                      ELSE QueueTail(b4, data, canSendNow, e, heap)
             ELSE QueueTail(b2, data, canSendNow, e, heap)

-----------------------------------------------------------------------------
(* SpecBatch: the batcher alone.  Any chunk may be appended, any flush     *)
(* attempted, clients come and go and the transport drains or fills.       *)

\* the batch state as the record the batcher operators work on
Batch == [batch |-> wsBatch, dropPending |-> wsDropPending,
          dropMsg |-> wsDropMessage, last |-> lastWsFlushMs, free |-> wsFree,
          out |-> <<>>, trims |-> <<>>, lost |-> 0]

Env == [max |-> cfg.wsBatchMaxBytes, interval |-> cfg.wsFlushIntervalMs,
        count |-> Cardinality(clients), now |-> now]

SetBatch(b) ==
    /\ wsBatch' = b.batch
    /\ wsDropPending' = b.dropPending
    /\ wsDropMessage' = b.dropMsg
    /\ lastWsFlushMs' = b.last
    /\ wsFree' = b.free

\* the history of a batcher step that ended in b
OpOf(name, b, chunk, force) ==
    [NoOp EXCEPT !.name = name, !.out = b.out, !.trims = b.trims,
                 !.lost = b.lost, !.batch0 = wsBatch, !.free0 = wsFree,
                 !.pend0 = wsDropPending, !.count0 = Cardinality(clients),
                 !.chunk = chunk, !.force = force]

\* batching to 4 bytes with and without a flush interval, and no batching
BatchCfgs ==
    {[DefaultCfg EXCEPT !.wsBatchMaxBytes = 4, !.wsFlushIntervalMs = 2],
     [DefaultCfg EXCEPT !.wsBatchMaxBytes = 4, !.wsFlushIntervalMs = 0],
     [DefaultCfg EXCEPT !.wsBatchMaxBytes = 0, !.wsFlushIntervalMs = 2]}

\* k letters
Letters(ch, k) == [i \in 1..k |-> ch]

\* the chunks tried: a line of 1..MaxChunk letters with or without its line
\* terminator, and one chunk of two lines
Chunks ==
    {Letters("a", k) \o t : k \in 1..MaxChunk, t \in {<<>>, <<NL>>}}
        \cup {<<"a", NL, "a", NL>>}

\* the outcomes of the two _wsBatch.concat calls: both find memory, the first
\* fails, both fail
HeapOutcomes == {<<TRUE, TRUE>>, <<FALSE, TRUE>>, <<FALSE, FALSE>>}

InitBatch ==
    /\ logbuf = NewRing(0).logbuf
    /\ bufCap = 0
    /\ used = 0
    /\ head = 0
    /\ pushed = <<>>
    /\ lastLine = <<>>
    /\ cfg \in BatchCfgs
    /\ wsBatch = <<>>
    /\ wsDropPending = FALSE
    /\ wsDropMessage = <<>>
    /\ lastWsFlushMs = 0
    /\ clients = {}
    /\ wsFree = MaxFree
    /\ now = 1
    /\ PipeIdle
    /\ SideIdle
    /\ op = NoOp

\* _queueWsBroadcast(chunk)
BatchQueue ==
    \E chunk \in Chunks, heap \in HeapOutcomes :
        \E b \in {QueueWsBroadcast(Batch, chunk, Env, heap)} :
            /\ SetBatch(b)
            /\ op' = OpOf("queue", b, chunk, FALSE)
            /\ UNCHANGED <<sideVars, pipeVars, ringVars, cfg, clients, now>>

\* _flushWsBroadcast(force): forced (connect, stop) or on the receive timeout
BatchFlush ==
    \E force \in BOOLEAN :
        \E b \in {FlushWsBroadcast(Batch, force, Env)} :
            /\ SetBatch(b)
            /\ op' = OpOf("flush", b, <<>>, force)
            /\ UNCHANGED <<sideVars, pipeVars, ringVars, cfg, clients, now>>

\* a client connects or disconnects
BatchClients ==
    \E c \in {1} :
        /\ clients' = IF c \in clients THEN clients \ {c} ELSE clients \cup {c}
        /\ op' = NoOp
        /\ UNCHANGED <<sideVars, pipeVars, ringVars, cfg, batchVars, wsFree, now>>

\* the client queues drain or fill
TransportChange ==
    \E n \in 0..MaxFree :
        /\ n # wsFree
        /\ wsFree' = n
        /\ op' = NoOp
        /\ UNCHANGED <<sideVars, pipeVars, ringVars, cfg, batchVars, clients, now>>

\* a millisecond passes
Tick ==
    /\ now < MaxNow
    /\ now' = now + 1
    /\ op' = NoOp
    /\ UNCHANGED <<sideVars, pipeVars, ringVars, cfg, batchVars, clients, wsFree>>

NextBatch == BatchQueue \/ BatchFlush \/ BatchClients \/ TransportChange \/ Tick

SpecBatch == InitBatch /\ [][NextBatch]_vars

-----------------------------------------------------------------------------
(* Spec: the pipeline.  Producers (printf from a task or an interrupt),    *)
(* the queue, the drain task, the transport context (connect, disconnect)  *)
(* and the application calling setConfig and disableEspLogBridge.  Message *)
(* number i is made of the i-th letter, so a delivered line names the      *)
(* message it came from.                                                   *)

MsgLetters == <<"a", "b", "c", "d", "e">>

\* the formatted output of the printf that creates message i: one letter,
\* with or without a line terminator
MsgTexts(i) == {<<MsgLetters[i], NL>>, <<MsgLetters[i]>>}

IdOf(ch) == CHOOSE i \in DOMAIN MsgLetters : MsgLetters[i] = ch

IsMsgLetter(ch) == \E i \in DOMAIN MsgLetters : MsgLetters[i] = ch

\* the numbers of the lines in a text, in order: one per line that holds a
\* message letter
RECURSIVE IdsFrom(_, _, _)
IdsFrom(text, i, fresh) ==
    IF i > Len(text) THEN <<>>
    ELSE IF text[i] = NL THEN IdsFrom(text, i + 1, TRUE)
    ELSE IF fresh /\ IsMsgLetter(text[i])
    THEN <<IdOf(text[i])>> \o IdsFrom(text, i + 1, FALSE)
    ELSE IdsFrom(text, i + 1, fresh)

LineIds(text) == IdsFrom(text, 1, TRUE)

\* the numbers of the log lines a sequence of transport writes delivers
RECURSIVE OutIds(_)
OutIds(out) ==
    IF out = <<>> THEN <<>>
    ELSE (IF Head(out).ok /\ Head(out).kind \in {"line", "batch", "backlog"}
          THEN LineIds(Head(out).text) ELSE <<>>) \o OutIds(Tail(out))

\* history: the clients in to receive the writes of out
Deliver(out, to) ==
    seen' = [c \in Clients |-> IF c \in to THEN seen[c] \o OutIds(out) ELSE seen[c]]

\* _vsformat(fmt, maxLen, ap) for a format whose full output is text; the
\* null pointer is the empty text
VsFormat(text, maxLen) ==
    LET n == Len(text)
        required == n + 2
        capacity == IF maxLen # 0 THEN Min(maxLen + 2, required) ELSE required
    IN  IF n <= 0 THEN <<>> ELSE SubSeq(text, 1, Min(n, capacity - 1))

\* _enqueueRaw kept a message the full queue refused
EnqueueRawOverfill(q, data, isr) ==
    IF data = <<>> \/ ~q.live
    THEN [ret |-> FALSE, items |-> q.items, freed |-> FALSE]
    ELSE [ret |-> TRUE, items |-> Append(q.items, data), freed |-> FALSE]

\* _enqueueRaw(data) on the queue q = [live, cap, items], from an interrupt
\* (xQueueSendFromISR) or from a task (xQueueSend with no wait): the return
\* value, the queue contents and whether data was freed
EnqueueRaw(q, data, isr) ==
    IF data = <<>> \/ ~q.live
    THEN [ret |-> FALSE, items |-> q.items, freed |-> FALSE]
    ELSE IF isr
    THEN IF Len(q.items) < q.cap
         THEN [ret |-> TRUE, items |-> Append(q.items, data), freed |-> FALSE]
         ELSE [ret |-> FALSE, items |-> q.items, freed |-> TRUE]
    ELSE IF Len(q.items) < q.cap
         THEN [ret |-> TRUE, items |-> Append(q.items, data), freed |-> FALSE]
         ELSE [ret |-> FALSE, items |-> q.items, freed |-> TRUE]

Queue == [live |-> qLive, cap |-> qCap, items |-> qItems]

\* the new queue had the default length
QueueCreateDefault(len) ==
    [live |-> TRUE, cap |-> DefaultCfg.queueLen, items |-> <<>>]

\* xQueueCreate(len, sizeof(LogMsg))
QueueCreate(len) == [live |-> TRUE, cap |-> len, items |-> <<>>]

Pad2(n) == <<DigitChar((n \div 10) % 10), DigitChar(n % 10)>>

Pad3(n) == <<DigitChar((n \div 100) % 10)>> \o Pad2(n)

\* _formatTimestamp() at millis() = ms
FormatTimestamp(ms) ==
    LET sec == ms \div 1000
    IN  <<"[">> \o Pad2((sec \div 3600) % 100) \o <<":">> \o Pad2((sec \div 60) % 60)
            \o <<":">> \o Pad2(sec % 60) \o <<".">> \o Pad3(ms % 1000) \o <<"]", " ">>

\* the configurations Spec constructs the console with and passes to
\* setConfig
MainCfgs ==
    {[DefaultCfg EXCEPT !.queueLen = 2, !.wsFlushIntervalMs = 1],
     [DefaultCfg EXCEPT !.queueLen = 1, !.wsFlushIntervalMs = 0]}

\* the constructor
Init ==
    /\ logbuf = NewRing(BacklogBytes).logbuf
    /\ bufCap = BacklogBytes
    /\ used = 0
    /\ head = 0
    /\ pushed = <<>>
    /\ lastLine = <<>>
    /\ cfg \in MainCfgs
    /\ wsBatch = <<>>
    /\ wsDropPending = FALSE
    /\ wsDropMessage = <<>>
    /\ lastWsFlushMs = 0
    /\ clients = {}
    /\ wsFree = MaxFree
    /\ now = MaxNow - 1
    /\ qLive = QueueCreate(cfg.queueLen).live
    /\ qCap = QueueCreate(cfg.queueLen).cap
    /\ qItems = QueueCreate(cfg.queueLen).items
    /\ task = TRUE
    /\ pc = "wait"
    /\ cur = <<>>
    /\ payload = <<>>
    /\ mtx = "free"
    /\ tpc = "idle"
    /\ tcli = 0
    /\ apc = "idle"
    /\ wasEnabled = FALSE
    /\ nextId = 1
    /\ seen = [c \in Clients |-> <<>>]
    /\ scTrace = <<>>
    /\ discarded = {}
    /\ SideIdle
    /\ op = NoOp

\* printf(fmt, ...) creating message nextId, from a task or an interrupt
Printf ==
    \E text \in MsgTexts(nextId), isr \in BOOLEAN :
        LET s == VsFormat(text, cfg.maxLineLen)
            r == EnqueueRaw(Queue, s, isr)
        IN  /\ nextId <= MaxMsgs
            /\ qItems' = r.items
            /\ nextId' = nextId + 1
            /\ op' = [NoOp EXCEPT !.name = "printf", !.chunk = s, !.ret = r.ret,
                                  !.freed = r.freed, !.q0 = qItems, !.cap0 = qCap,
                                  !.live0 = qLive]
            /\ UNCHANGED <<sideVars, ringVars, cfg, batchVars, clients, wsFree, now, qLive,
                           qCap, drainVars, connVars, appVars, seen, discarded>>

\* _drainTask: xQueueReceive returns a message; a missing line terminator is
\* added when realloc finds memory
DrainReceive ==
    \E extended \in BOOLEAN :
        /\ task /\ pc = "wait"
        /\ qLive /\ qItems # <<>>
        /\ LET data == Head(qItems)
               len == Len(data)
           IN  cur' = IF len # 0 /\ data[len] # NL /\ extended
                      THEN Append(data, NL) ELSE data
        /\ qItems' = Tail(qItems)
        /\ pc' = "take"
        /\ op' = NoOp
        /\ UNCHANGED <<sideVars, ringVars, cfg, batchVars, clients, wsFree, now, qLive, qCap,
                       task, payload, mtx, connVars, appVars, histVars>>

\* _processLine: the payload is built, _mtx taken and the backlog written
DrainTake ==
    /\ task /\ pc = "take"
    /\ mtx = "free"
    /\ LET line == IF cfg.timestamps THEN FormatTimestamp(now) \o cur ELSE cur
       IN  /\ payload' = line
           /\ SetRing(PushLine(Ring, line))
           /\ pushed' = LastN(pushed \o line, bufCap)
           /\ lastLine' = line
    /\ mtx' = "drain"
    /\ pc' = "give"
    /\ op' = NoOp
    /\ UNCHANGED <<sideVars, cfg, batchVars, clients, wsFree, now, queueVars, task, cur,
                   connVars, appVars, histVars>>

\* _processLine: _mtx given back
DrainGive ==
    /\ task /\ pc = "give"
    /\ mtx' = "free"
    /\ pc' = "bcast"
    /\ op' = NoOp
    /\ UNCHANGED <<sideVars, ringVars, cfg, batchVars, clients, wsFree, now, queueVars,
                   task, cur, payload, connVars, appVars, histVars>>

\* _processLine: _queueWsBroadcast(payload); then _drainTask frees msg.data
DrainBroadcast ==
    /\ task /\ pc = "bcast"
    /\ \E heap \in HeapOutcomes :
        \E b \in {QueueWsBroadcast(Batch, payload, Env, heap)} :
            /\ SetBatch(b)
            /\ Deliver(b.out, clients)
            /\ pc' = "wait"
            /\ cur' = <<>>
            /\ payload' = <<>>
            /\ op' = [OpOf("queue", b, payload, FALSE) EXCEPT !.freed = TRUE]
            /\ UNCHANGED <<sideVars, ringVars, cfg, clients, now, queueVars, task, mtx,
                           connVars, appVars, nextId, discarded>>

\* the ticks _drainTask waits in xQueueReceive: pdMS_TO_TICKS at one tick
\* per millisecond, at least one
WaitTicks == IF cfg.wsFlushIntervalMs < 1 THEN 1 ELSE cfg.wsFlushIntervalMs

\* _drainTask: xQueueReceive times out after WaitTicks on an empty queue and
\* the time-based flush runs
DrainTimeout ==
    /\ task /\ pc = "wait"
    /\ qLive /\ qItems = <<>>
    /\ cfg.wsFlushIntervalMs # 0
    /\ now + WaitTicks <= MaxNow
    /\ now' = now + WaitTicks
    /\ \E b \in {FlushWsBroadcast(Batch, FALSE, [Env EXCEPT !.now = now + WaitTicks])} :
           /\ SetBatch(b)
           /\ Deliver(b.out, clients)
           /\ op' = OpOf("timeout", b, <<>>, FALSE)
    /\ UNCHANGED <<sideVars, ringVars, cfg, clients, queueVars, drainVars, connVars,
                   appVars, nextId, discarded>>

\* _onWsEvent(WS_EVT_CONNECT): the client is connected and gets the banner;
\* sendBacklog then waits for _mtx
WsConnect ==
    \E c \in Clients \ clients :
        /\ tpc = "idle"
        /\ clients' = clients \cup {c}
        /\ tpc' = "backlog"
        /\ tcli' = c
        /\ op' = NoOp
        /\ UNCHANGED <<sideVars, ringVars, cfg, batchVars, wsFree, now, queueVars,
                       drainVars, appVars, histVars>>

\* _onWsEvent(WS_EVT_CONNECT) continued: sendBacklog reads the ring under
\* _mtx and sends it to the client; no command is registered, so no help
\* text; _flushWsBroadcast(true)
WsBacklog ==
    /\ tpc = "backlog"
    /\ mtx = "free"
    /\ \E blob \in {Snapshot(Ring)}, b \in {FlushWsBroadcast(Batch, TRUE, Env)} :
        LET sent == IF blob # <<>>
                    THEN <<[kind |-> "backlog", text |-> blob, ok |-> TRUE]>> ELSE <<>>
        IN  /\ SetBatch(b)
            /\ seen' = [c \in Clients |->
                           IF c = tcli THEN seen[c] \o OutIds(sent) \o OutIds(b.out)
                           ELSE IF c \in clients THEN seen[c] \o OutIds(b.out)
                           ELSE seen[c]]
            /\ op' = NoOp
    /\ tpc' = "idle"
    /\ tcli' = 0
    /\ UNCHANGED <<sideVars, ringVars, cfg, clients, now, queueVars, drainVars, appVars,
                   nextId, discarded>>

\* a client disconnects
WsDisconnect ==
    \E c \in clients :
        /\ tpc = "idle"
        /\ clients' = clients \ {c}
        /\ seen' = [seen EXCEPT ![c] = <<>>]
        /\ op' = NoOp
        /\ UNCHANGED <<sideVars, ringVars, cfg, batchVars, wsFree, now, queueVars,
                       drainVars, connVars, appVars, nextId, discarded>>

\* the numbers of the messages waiting in the queue
QueuedIds == {LineIds(qItems[i])[1] : i \in DOMAIN qItems}

\* setConfig(c), first part: the consumer is stopped (_stopDrainTask flushes
\* and deletes the task) or, with no consumer, the batch is flushed; then
\* _cfg = c, _wsBatch = "" and _lastWsFlushMs = millis()
SetConfigStop ==
    /\ apc = "idle"
    /\ \E c \in MainCfgs :
        \E b \in {FlushWsBroadcast(Batch, TRUE, Env)} :
            /\ wasEnabled' = task
            /\ task' = FALSE
            /\ pc' = IF task THEN "dead" ELSE pc
            /\ cur' = <<>>
            /\ payload' = <<>>
            /\ Deliver(b.out, clients)
            /\ cfg' = c
            /\ wsBatch' = <<>>
            /\ lastWsFlushMs' = now
            /\ wsDropPending' = b.dropPending
            /\ wsDropMessage' = b.dropMsg
            /\ wsFree' = b.free
            /\ scTrace' = IF task THEN <<"stop", "reset">> ELSE <<"flush", "reset">>
            /\ apc' = "qdel"
            /\ op' = NoOp
            /\ UNCHANGED <<sideVars, ringVars, clients, now, queueVars, mtx, connVars,
                           nextId, discarded>>

\* setConfig, second part: vQueueDelete(_q) and _q = nullptr; the messages
\* still queued go with the queue
SetConfigDelete ==
    /\ apc = "qdel"
    /\ qLive' = FALSE
    /\ qItems' = <<>>
    /\ discarded' = IF qLive THEN discarded \cup QueuedIds ELSE discarded
    /\ scTrace' = IF qLive THEN Append(scTrace, "discard") ELSE scTrace
    /\ apc' = "qnew"
    /\ op' = NoOp
    /\ UNCHANGED <<sideVars, ringVars, cfg, batchVars, clients, wsFree, now, qCap,
                   drainVars, connVars, wasEnabled, nextId, seen>>

\* setConfig, last part: xQueueCreate(_cfg.queueLen) and, when the consumer
\* ran before the call, _startDrainTask
SetConfigCreate ==
    /\ apc = "qnew"
    /\ qLive' = QueueCreate(cfg.queueLen).live
    /\ qCap' = QueueCreate(cfg.queueLen).cap
    /\ qItems' = QueueCreate(cfg.queueLen).items
    /\ task' = (task \/ wasEnabled)
    /\ pc' = IF ~task /\ wasEnabled THEN "wait" ELSE pc
    /\ scTrace' = <<>>
    /\ wasEnabled' = FALSE
    /\ apc' = "idle"
    /\ op' = [NoOp EXCEPT !.name = "setConfigDone", !.was = wasEnabled,
                          !.trace = scTrace \o <<"create">> \o
                                    (IF wasEnabled THEN <<"restart">> ELSE <<>>)]
    /\ UNCHANGED <<sideVars, ringVars, cfg, batchVars, clients, wsFree, now, cur,
                   payload, mtx, connVars, histVars>>

\* disableEspLogBridge(): _stopDrainTask flushes and deletes the consumer
DisableEspLogBridge ==
    /\ apc = "idle"
    /\ task
    /\ \E b \in {FlushWsBroadcast(Batch, TRUE, Env)} :
        /\ SetBatch(b)
        /\ Deliver(b.out, clients)
        /\ task' = FALSE
        /\ pc' = "dead"
        /\ cur' = <<>>
        /\ payload' = <<>>
        /\ op' = NoOp
        /\ UNCHANGED <<sideVars, ringVars, cfg, clients, now, queueVars, mtx, connVars,
                       appVars, nextId, discarded>>

Next ==
    \/ Printf
    \/ DrainReceive
    \/ DrainTake
    \/ DrainGive
    \/ DrainBroadcast
    \/ DrainTimeout
    \/ WsConnect
    \/ WsBacklog
    \/ WsDisconnect
    \/ SetConfigStop
    \/ SetConfigDelete
    \/ SetConfigCreate
    \/ DisableEspLogBridge
    \/ TransportChange

Spec == Init /\ [][Next]_vars

-----------------------------------------------------------------------------
(* SpecCmd: the command registry, the tokenizer and dispatch.               *)

\* _maxCmds and _maxArgs
MaxCmds == 32

MaxArgs == 12

\* a null pointer (no text has an element of more than one character)
Null == <<"null">>

\* an empty std::function
NoHandler == "none"

TAB == "\t"

QUOTE == "\""

\* the characters isspace() accepts (the vertical tab cannot be written here)
Spaces == {" ", TAB, NL, "\r", "\f"}

RECURSIVE TrimLeft(_)
TrimLeft(s) == IF s # <<>> /\ Head(s) \in Spaces THEN TrimLeft(Tail(s)) ELSE s

RECURSIVE TrimRight(_)
TrimRight(s) ==
    IF s # <<>> /\ s[Len(s)] \in Spaces THEN TrimRight(SubSeq(s, 1, Len(s) - 1)) ELSE s

\* String::trim()
Trim(s) == TrimRight(TrimLeft(s))

Uppers ==
    <<"A", "B", "C", "D", "E", "F", "G", "H", "I", "J", "K", "L", "M",
      "N", "O", "P", "Q", "R", "S", "T", "U", "V", "W", "X", "Y", "Z">>

Lowers ==
    <<"a", "b", "c", "d", "e", "f", "g", "h", "i", "j", "k", "l", "m",
      "n", "o", "p", "q", "r", "s", "t", "u", "v", "w", "x", "y", "z">>

\* tolower()
ToLower(ch) ==
    IF \E i \in DOMAIN Uppers : Uppers[i] = ch
    THEN Lowers[CHOOSE i \in DOMAIN Uppers : Uppers[i] = ch]
    ELSE ch

\* String::equalsIgnoreCase
EqualsIgnoreCase(a, b) ==
    /\ Len(a) = Len(b)
    /\ \A i \in DOMAIN a : ToLower(a[i]) = ToLower(b[i])

\* the tokenizer kept every token, however many
EmitAll(out, tok, maxOut) == IF tok # <<>> THEN Append(out, tok) ELSE out

\* lines 756-759 and 764-766 of _tokenize: a finished token goes to out[n++]
\* while n < maxOut
Emit(out, tok, maxOut) ==
    IF tok # <<>> /\ Len(out) < maxOut THEN Append(out, tok) ELSE out

\* the loop of _tokenize from character i on
RECURSIVE TokScan(_, _, _, _, _, _)
TokScan(in, i, inQuote, tok, out, maxOut) ==
    IF i > Len(in) THEN Emit(out, tok, maxOut)
    ELSE IF in[i] = QUOTE THEN TokScan(in, i + 1, ~inQuote, tok, out, maxOut)
    ELSE IF ~inQuote /\ (in[i] = " " \/ in[i] = TAB)
    THEN TokScan(in, i + 1, inQuote, <<>>, Emit(out, tok, maxOut), maxOut)
    ELSE TokScan(in, i + 1, inQuote, Append(tok, in[i]), out, maxOut)

\* _tokenize(in, out, maxOut): the tokens out[0..n-1]
Tokenize(in, maxOut) == TokScan(in, 1, FALSE, <<>>, <<>>, maxOut)

RECURSIVE Spc(_)
Spc(k) == IF k = 0 THEN <<>> ELSE <<" ">> \o Spc(k - 1)

RECURSIVE Widest(_, _)
Widest(cs, field) ==
    IF cs = <<>> THEN 0
    ELSE LET w == Len(Head(cs)[field])
             r == Widest(Tail(cs), field)
         IN  IF w > r THEN w ELSE r

RECURSIVE HelpRows(_, _, _)
HelpRows(cs, wName, wArgs) ==
    IF cs = <<>> THEN <<>>
    ELSE LET e == Head(cs)
         IN  <<" ", " ">> \o e.name \o Spc(wName - Len(e.name)) \o <<" ">>
                 \o e.args \o Spc(wArgs - Len(e.args))
                 \o (IF e.help # <<>> THEN <<" ", " ", "-", " ">> \o e.help ELSE <<>>)
                 \o <<NL>> \o HelpRows(Tail(cs), wName, wArgs)

HelpTitle == <<"C", "o", "m", "m", "a", "n", "d", "s", ":", NL>>

\* helpText()
HelpText(cs) ==
    IF cs = <<>> THEN <<>>
    ELSE HelpTitle \o HelpRows(cs, Widest(cs, "name"), Widest(cs, "args"))

\* "Unknown command. Type 'help'\n"
UnknownReply ==
    <<"U", "n", "k", "n", "o", "w", "n", " ", "c", "o", "m", "m", "a", "n", "d",
      ".", " ", "T", "y", "p", "e", " ", "'", "h", "e", "l", "p", "'", NL>>

WordHelp == <<"h", "e", "l", "p">>

WordEcho == <<"e", "c", "h", "o">>

RECURSIVE JoinArgs(_, _)
JoinArgs(argv, i) ==
    IF i > Len(argv) THEN <<>>
    ELSE (IF i > 2 THEN <<" ">> ELSE <<>>) \o argv[i] \o JoinArgs(argv, i + 1)

UsageReply ==
    <<"U", "s", "a", "g", "e", ":", " ", "e", "c", "h", "o", " ", "<", "t", "e",
      "x", "t", ">", NL>>

\* the echo handler of examples/Basic
EchoHandler(argv) ==
    IF Len(argv) < 2 THEN UsageReply ELSE JoinArgs(argv, 2) \o <<NL>>

\* fn(argc, argv) of a registered handler: "echo" is the echo handler, any
\* other handler replies with its own one-letter name
RunHandler(fn, argv) == IF fn = "echo" THEN EchoHandler(argv) ELSE <<fn>>

\* the index of the first entry of cs, from i on, whose name equals tok
\* ignoring case; 0 when there is none
\* dispatch looked for the last entry of that name
LastMatch(cs, tok, i) ==
    LET hits == {k \in DOMAIN cs : EqualsIgnoreCase(tok, cs[k].name)}
    IN  IF hits = {} THEN 0 ELSE CHOOSE k \in hits : \A j \in hits : j <= k

RECURSIVE FirstMatch(_, _, _)
FirstMatch(cs, tok, i) ==
    IF i > Len(cs) THEN 0
    ELSE IF EqualsIgnoreCase(tok, cs[i].name) THEN i
    ELSE FirstMatch(cs, tok, i + 1)

\* dispatch(raw): the reply, the tokens handed to the handler and the index
\* of the entry whose handler ran (0: none)
Dispatch(cs, raw) ==
    LET c == Trim(raw)
        argv == Tokenize(c, MaxArgs)
        i == FirstMatch(cs, argv[1], 1)
    IN  IF c = <<>> \/ argv = <<>> THEN [reply |-> <<>>, argv |-> argv, hit |-> 0]
        ELSE IF argv[1] = WordHelp THEN [reply |-> HelpText(cs), argv |-> argv, hit |-> 0]
        ELSE IF i # 0
        THEN [reply |-> RunHandler(cs[i].fn, argv), argv |-> argv, hit |-> i]
        ELSE [reply |-> UnknownReply, argv |-> argv, hit |-> 0]

\* addCommand stored an entry past the capacity
AddCommandNoCap(cs, name, args, help, fn) ==
    IF name = Null \/ name = <<>> \/ fn = NoHandler
    THEN [ret |-> FALSE, cmds |-> cs]
    ELSE [ret |-> TRUE,
          cmds |-> Append(cs, [name |-> name,
                               args |-> IF args = Null THEN <<>> ELSE args,
                               help |-> IF help = Null THEN <<>> ELSE help,
                               fn |-> fn])]

\* addCommand(name, args, help, fn): the return value and the registry
AddCommand(cs, name, args, help, fn) ==
    IF name = Null \/ name = <<>> \/ fn = NoHandler
    THEN [ret |-> FALSE, cmds |-> cs]
    ELSE IF Len(cs) >= MaxCmds THEN [ret |-> FALSE, cmds |-> cs]
    ELSE [ret |-> TRUE,
          cmds |-> Append(cs, [name |-> name,
                               args |-> IF args = Null THEN <<>> ELSE args,
                               help |-> IF help = Null THEN <<>> ELSE help,
                               fn |-> fn])]

\* everything but the registry, the file system and the history of a step
coreVars == <<ringVars, cfg, batchVars, clients, wsFree, now, pipeVars>>

\* a console with no backlog, the default Config and an idle pipeline
ConsoleIdle ==
    /\ logbuf = NewRing(0).logbuf
    /\ bufCap = 0
    /\ used = 0
    /\ head = 0
    /\ pushed = <<>>
    /\ lastLine = <<>>
    /\ cfg = DefaultCfg
    /\ wsBatch = <<>>
    /\ wsDropPending = FALSE
    /\ wsDropMessage = <<>>
    /\ lastWsFlushMs = 0
    /\ clients = {}
    /\ wsFree = MaxFree
    /\ now = 1
    /\ PipeIdle

\* the registrations tried while the registry holds fewer than VariedCmds
\* entries: the echo command, a second entry of the same name in capitals,
\* and an entry named help
CmdEntries ==
    {[name |-> WordEcho, args |-> <<"<", "t", ">">>, help |-> <<"E">>, fn |-> "echo"],
     [name |-> <<"E", "C", "H", "O">>, args |-> Null, help |-> Null, fn |-> "B"],
     [name |-> WordHelp, args |-> <<>>, help |-> <<"H">>, fn |-> "C"]}

\* the registration tried on a fuller registry
CmdFiller == [name |-> <<"x">>, args |-> Null, help |-> Null, fn |-> "X"]

\* registrations addCommand must refuse: no name, an empty name, no handler
CmdRefused ==
    {[name |-> Null, args |-> Null, help |-> Null, fn |-> "B"],
     [name |-> <<>>, args |-> Null, help |-> Null, fn |-> "B"],
     [name |-> <<"x">>, args |-> Null, help |-> Null, fn |-> NoHandler]}

\* "echo" followed by k - 1 arguments "a"
RECURSIVE EchoLine(_)
EchoLine(k) == IF k <= 1 THEN WordEcho ELSE EchoLine(k - 1) \o <<" ", "a">>

\* the command lines dispatched
CmdLines ==
    {<<>>,
     <<" ", " ">>,
     <<TAB, NL>>,
     <<QUOTE, QUOTE>>,
     <<" ", QUOTE, QUOTE, TAB>>,
     WordHelp,
     <<" ">> \o WordHelp \o <<NL>>,
     WordHelp \o <<" ", "x">>,
     <<"H", "E", "L", "P">>,
     <<"H", "e", "l", "p">>,
     <<"z", "z">>,
     <<"x">>,
     WordEcho,
     WordEcho \o <<" ", "o", "n", "e", " ", "t", "w", "o">>,
     WordEcho \o <<" ", " ", "o", "n", "e", TAB, "t", "w", "o", " ">>,
     <<"E", "c", "h", "O", " ", "a">>,
     WordEcho \o <<" ", QUOTE, "a", " ", "b", QUOTE, " ", "c">>,
     WordEcho \o <<" ", QUOTE, "a", " ", "b">>,
     WordEcho \o <<" ", "a", QUOTE, "b", " ", "c", QUOTE, "d">>,
     WordEcho \o <<" ", QUOTE, QUOTE, " ", "c">>,
     <<QUOTE, "e", "c", QUOTE, "h", "o", " ", "a">>}
        \cup {EchoLine(k) : k \in (MaxTokens - 2)..MaxTokens}

InitCmd ==
    /\ ConsoleIdle
    /\ SideIdle
    /\ op = NoOp

\* addCommand(name, args, help, fn)
CmdAdd ==
    \E e \in (IF Len(cmds) < VariedCmds THEN CmdEntries ELSE {CmdFiller}) \cup CmdRefused :
        \E r \in {AddCommand(cmds, e.name, e.args, e.help, e.fn)} :
            /\ cmds' = r.cmds
            /\ op' = [NoOp EXCEPT !.name = "addCommand", !.raw = e, !.ret = r.ret,
                                  !.cmds0 = cmds]
            /\ UNCHANGED <<coreVars, files, lk, etsVars, sunk, prod>>

\* dispatch(raw)
CmdDispatch ==
    \E raw \in CmdLines :
        \E d \in {Dispatch(cmds, raw)} :
            /\ op' = [NoOp EXCEPT !.name = "dispatch", !.raw = raw, !.argv = d.argv,
                                  !.reply = d.reply, !.hit = d.hit]
            /\ UNCHANGED <<coreVars, sideVars>>

NextCmd == CmdAdd \/ CmdDispatch

SpecCmd == InitCmd /\ [][NextCmd]_vars

-----------------------------------------------------------------------------
(* The structured log bridge and print: _idfVprintfShim, _allowSyslog,
   _detectEspLogLevel, printf with a line-length limit (SpecBridge) *)

\* the character \x1b
ESC == "ESC"

\* esp_log_level_t
LogNone == 0
LogError == 1
LogWarn == 2
LogInfo == 3
LogDebug == 4
LogVerbose == 5

\* the scan of _detectEspLogLevel stops before this index
ScanLen == 8

IsUpper(c) == \E k \in DOMAIN Uppers : Uppers[k] = c

\* the loop of _detectEspLogLevel from index i (counted from 1)
RECURSIVE LevelScan(_, _)
LevelScan(s, i) ==
    IF i > Len(s) \/ i > ScanLen THEN LogNone
    ELSE IF s[i] = "E" THEN LogError
    ELSE IF s[i] = "W" THEN LogWarn
    ELSE IF s[i] = "I" THEN LogInfo
    ELSE IF s[i] = "D" THEN LogDebug
    ELSE IF s[i] = "V" THEN LogVerbose
    ELSE IF IsUpper(s[i]) \/ s[i] = "[" THEN LogNone
    ELSE LevelScan(s, i + 1)

DetectEspLogLevel(s) == LevelScan(s, 1)

\* _allowSyslog let through only the levels below the maximum
AllowSyslogBelow(s, maxLevel) ==
    DetectEspLogLevel(s) = LogNone \/ DetectEspLogLevel(s) < maxLevel

\* _allowSyslog(s) with _cfg.syslogMaxLevel = maxLevel
AllowSyslog(s, maxLevel) ==
    IF DetectEspLogLevel(s) = LogNone THEN TRUE
    ELSE DetectEspLogLevel(s) <= maxLevel

\* _idfVprintfShim on the queue q with the configuration c, text being what
\* the format renders: the return value, the rendered buffer s, the queue
\* contents and whether s was freed
IdfVprintfShim(q, c, text, isr) ==
    IF ~q.live
    THEN [ret |-> Len(text), s |-> <<>>, items |-> q.items, freed |-> FALSE]
    ELSE LET s == VsFormat(text, c.maxLineLen)
             r == EnqueueRaw(q, s, isr)
         IN  IF s = <<>>
             THEN [ret |-> 0, s |-> s, items |-> q.items, freed |-> FALSE]
             ELSE IF AllowSyslog(s, c.syslogMaxLevel)
             THEN [ret |-> IF r.ret THEN Len(s) ELSE 0, s |-> s,
                   items |-> r.items, freed |-> r.freed]
             ELSE [ret |-> Len(s), s |-> s, items |-> q.items, freed |-> TRUE]

Txt4 == <<" ", "(", "1", ")">>

\* seven spaces
Pad7 == Spc(ScanLen - 1)

\* the rendered lines tried
BridgeLines ==
    {<<"E", " ", "(", "1", "2", "3", "4", ")", " ", "t", "a", "g", ":", " ",
       "m", "s", "g">>,
     <<"W">> \o Txt4, <<"I">> \o Txt4, <<"D">> \o Txt4, <<"V">> \o Txt4,
     <<"Z", "E">>,
     <<ESC, "W">> \o Txt4,
     <<ESC, ESC, "V">>,
     <<ESC, "[", "0", ";", "3", "1", "m", "E">> \o Txt4,
     <<ESC, "[", "m", "W">>,
     <<"a", "b", "E">>,
     <<"[", "I", "]">>,
     <<"1", "D">>,
     <<"(", "1", ")", " ", "x">>,
     Pad7 \o <<"E">>,
     Pad7 \o <<" ", "E">>,
     <<"o", "k">>}

\* the configurations tried: a line-length limit or none, every maximum level
BridgeCfgs ==
    {[queueLen |-> 1, timestamps |-> FALSE, maxLineLen |-> ml,
      wsBatchMaxBytes |-> DefaultCfg.wsBatchMaxBytes,
      wsFlushIntervalMs |-> DefaultCfg.wsFlushIntervalMs,
      syslogMaxLevel |-> lv] : ml \in {0, 2}, lv \in LogNone..LogVerbose}

\* the console with the bridge installed; without a queue while setConfig
\* replaces it
InitBridge ==
    /\ logbuf = NewRing(0).logbuf
    /\ bufCap = 0
    /\ used = 0
    /\ head = 0
    /\ pushed = <<>>
    /\ lastLine = <<>>
    /\ cfg \in BridgeCfgs
    /\ wsBatch = <<>>
    /\ wsDropPending = FALSE
    /\ wsDropMessage = <<>>
    /\ lastWsFlushMs = 0
    /\ clients = {}
    /\ wsFree = MaxFree
    /\ now = 1
    /\ qLive \in BOOLEAN
    /\ qCap = IF qLive THEN cfg.queueLen ELSE 0
    /\ qItems = <<>>
    /\ task = TRUE
    /\ pc = "wait"
    /\ cur = <<>>
    /\ payload = <<>>
    /\ mtx = "free"
    /\ tpc = "idle"
    /\ tcli = 0
    /\ apc = "idle"
    /\ wasEnabled = TRUE
    /\ nextId = 1
    /\ seen = [c \in Clients |-> <<>>]
    /\ scTrace = <<>>
    /\ discarded = {}
    /\ SideIdle
    /\ op = NoOp

bridgeRest ==
    <<sideVars, ringVars, cfg, batchVars, clients, wsFree, now, qLive, qCap,
      drainVars, connVars, appVars, nextId, seen, discarded>>

\* the logging system calls the installed hook
BridgeLog ==
    \E text \in BridgeLines, isr \in BOOLEAN :
        \E r \in {IdfVprintfShim(Queue, cfg, text, isr)} :
            /\ qItems' = r.items
            /\ op' = [NoOp EXCEPT !.name = "shim", !.raw = text, !.chunk = r.s,
                                  !.level = DetectEspLogLevel(r.s),
                                  !.count0 = r.ret, !.ret = r.ret # 0,
                                  !.freed = r.freed, !.q0 = qItems,
                                  !.cap0 = qCap, !.live0 = qLive]
            /\ UNCHANGED bridgeRest

\* print(text) or printf("%s", text)
BridgePrint ==
    \E text \in BridgeLines, isr \in BOOLEAN :
        \E s \in {VsFormat(text, cfg.maxLineLen)} :
            \E r \in {EnqueueRaw(Queue, s, isr)} :
                /\ qItems' = r.items
                /\ op' = [NoOp EXCEPT !.name = "print", !.raw = text, !.chunk = s,
                                      !.ret = r.ret, !.freed = r.freed,
                                      !.q0 = qItems, !.cap0 = qCap,
                                      !.live0 = qLive]
                /\ UNCHANGED bridgeRest

NextBridge == BridgeLog \/ BridgePrint

SpecBridge == InitBridge /\ [][NextBridge]_vars

-----------------------------------------------------------------------------
(* The log file and its rotation: _appendToFile, _rotateIfNeeded,
   enableFileLog, disableFileLog (SpecFile) *)

\* files[0] is the active file _cfg.filePath, files[i] is filePath.i

\* _currentFileSize(): 0 when the file cannot be opened
CurrentFileSize(fs) == IF fs[0] = Absent THEN 0 ELSE Len(fs[0])

\* rename(from, to) on the file system fs
Rename(fs, from, to) == [fs EXCEPT ![to] = fs[from], ![from] = Absent]

\* _rotateIfNeeded moved the active file to path.1 without the shift loop
RotateNoShift(fs, c) ==
    IF CurrentFileSize(fs) <= c.maxFileSize THEN fs ELSE Rename(fs, 0, 1)

\* the loop of _rotateIfNeeded from index i down to 1
RECURSIVE ShiftFiles(_, _)
ShiftFiles(fs, i) ==
    IF i < 1 THEN fs
    ELSE ShiftFiles(IF fs[i] # Absent THEN Rename(fs, i, i + 1) ELSE fs, i - 1)

\* _rotateIfNeeded() with the configuration c
RotateIfNeeded(fs, c) ==
    IF CurrentFileSize(fs) <= c.maxFileSize THEN fs
    ELSE Rename(ShiftFiles(fs, c.maxFiles - 1), 0, 1)

\* open(path, FILE_APPEND, create) and write(data)
WriteAppend(fs, data) ==
    [fs EXCEPT ![0] = (IF fs[0] = Absent THEN <<>> ELSE fs[0]) \o data]

\* _appendToFile(data) with the configuration c
AppendToFile(fs, c, data) ==
    IF ~c.fileLogEnable THEN fs
    ELSE WriteAppend(RotateIfNeeded(fs, c), data)

\* enableFileLog(path, maxSize, maxFiles): a zero keeps the old value
EnableFileLog(c, maxSize, maxFiles) ==
    [c EXCEPT !.fileLogEnable = TRUE,
              !.maxFileSize = IF maxSize # 0 THEN maxSize ELSE c.maxFileSize,
              !.maxFiles = IF maxFiles # 0 THEN maxFiles ELSE c.maxFiles]

\* the lines the k-th append may write
FileLines(k) == {<<DigitChar(k)>>, <<DigitChar(k), NL>>}

\* the configurations tried
FileCfgs ==
    {[queueLen |-> DefaultCfg.queueLen, timestamps |-> FALSE, maxLineLen |-> 0,
      wsBatchMaxBytes |-> DefaultCfg.wsBatchMaxBytes,
      wsFlushIntervalMs |-> DefaultCfg.wsFlushIntervalMs,
      fileLogEnable |-> en, maxFileSize |-> sz, maxFiles |-> mf] :
        en \in BOOLEAN, sz \in {1, 2}, mf \in 0..MaxRotated}

\* the console over an empty file system
InitFile ==
    /\ logbuf = NewRing(0).logbuf
    /\ bufCap = 0
    /\ used = 0
    /\ head = 0
    /\ pushed = <<>>
    /\ lastLine = <<>>
    /\ cfg \in FileCfgs
    /\ wsBatch = <<>>
    /\ wsDropPending = FALSE
    /\ wsDropMessage = <<>>
    /\ lastWsFlushMs = 0
    /\ clients = {}
    /\ wsFree = MaxFree
    /\ now = 1
    /\ PipeIdle
    /\ SideIdle
    /\ op = NoOp

fileRest ==
    <<cmds, lk, etsVars, sunk, prod, ringVars, batchVars, clients, wsFree, now, queueVars,
      drainVars,
      connVars, appVars, seen, discarded>>

\* the consumer hands a processed line to the file log
FileAppend ==
    /\ nextId <= MaxAppends
    /\ \E data \in FileLines(nextId) :
           /\ files' = AppendToFile(files, cfg, data)
           /\ nextId' = nextId + 1
           /\ op' = [NoOp EXCEPT !.name = "append", !.chunk = data,
                                 !.files0 = files]
           /\ UNCHANGED <<cfg, fileRest>>

\* enableFileLog with its default arguments or with the values in force
FileEnable ==
    \E maxSize \in {0, cfg.maxFileSize}, maxFiles \in {0, cfg.maxFiles} :
        /\ cfg' = EnableFileLog(cfg, maxSize, maxFiles)
        /\ op' = NoOp
        /\ UNCHANGED <<files, nextId, fileRest>>

\* disableFileLog()
FileDisable ==
    /\ cfg' = [cfg EXCEPT !.fileLogEnable = FALSE]
    /\ op' = NoOp
    /\ UNCHANGED <<files, nextId, fileRest>>

NextFile == FileAppend \/ FileEnable \/ FileDisable

SpecFile == InitFile /\ [][NextFile]_vars

-----------------------------------------------------------------------------
(* The consumer and a connect event, step by step through the code that
   runs outside _mtx (SpecLock) *)

\* the console of Init with the queue of two messages
InitLock == Init /\ cfg.queueLen = 2

\* the batch state a context works on when it leaves its batch code: the
\* state of that moment, or the one it read on entering when the other
\* context wrote in between
RaceBases(found) ==
    {Batch} \cup {[found[k] EXCEPT !.free = wsFree] : k \in DOMAIN found}

\* _processLine: _queueWsBroadcast(payload) is entered, no lock held
LockQueueEnter ==
    /\ task /\ pc = "bcast"
    /\ pc' = "inq"
    /\ lk' = [lk EXCEPT !.drain = <<Batch>>]
    /\ op' = NoOp
    /\ UNCHANGED <<cmds, files, etsVars, sunk, prod, ringVars, cfg, batchVars, clients, wsFree, now,
                   queueVars, task, cur, payload, mtx, connVars, appVars, histVars>>

\* _queueWsBroadcast returns; then _drainTask frees msg.data
LockQueueLeave ==
    /\ task /\ pc = "inq"
    /\ \E heap \in HeapOutcomes, base \in RaceBases(lk.drain) :
        \E b \in {QueueWsBroadcast(base, payload, Env, heap)} :
            /\ SetBatch(b)
            /\ Deliver(b.out, clients)
            /\ pc' = "wait"
            /\ cur' = <<>>
            /\ payload' = <<>>
            /\ lk' = [lk EXCEPT !.drain = <<>>]
            /\ op' = [OpOf("queue", b, payload, FALSE) EXCEPT !.freed = TRUE]
            /\ UNCHANGED <<cmds, files, etsVars, sunk, prod, ringVars, cfg, clients, now, queueVars, task,
                           mtx, connVars, appVars, nextId, discarded>>

\* sendBacklog: _mtx is taken and the ring read
LockSnapTake ==
    /\ tpc = "backlog"
    /\ mtx = "free"
    /\ mtx' = "ws"
    /\ tpc' = "snap"
    /\ op' = NoOp
    /\ UNCHANGED <<sideVars, ringVars, cfg, batchVars, clients, wsFree, now,
                   queueVars, task, pc, cur, payload, tcli, appVars, histVars>>

\* sendBacklog: _mtx is given back and the snapshot sent to the client
LockSnapGive ==
    /\ tpc = "snap"
    /\ mtx' = "free"
    /\ tpc' = "flush"
    /\ \E blob \in {Snapshot(Ring)} :
           seen' = [seen EXCEPT ![tcli] =
                       @ \o (IF blob # <<>> THEN LineIds(blob) ELSE <<>>)]
    /\ op' = NoOp
    /\ UNCHANGED <<sideVars, ringVars, cfg, batchVars, clients, wsFree, now,
                   queueVars, task, pc, cur, payload, tcli, appVars, nextId,
                   discarded>>

\* _onWsEvent: _flushWsBroadcast(true) is entered, no lock held
LockFlushEnter ==
    /\ tpc = "flush"
    /\ tpc' = "inflush"
    /\ lk' = [lk EXCEPT !.conn = <<Batch>>]
    /\ op' = NoOp
    /\ UNCHANGED <<cmds, files, etsVars, sunk, prod, ringVars, cfg, batchVars, clients, wsFree, now,
                   queueVars, drainVars, tcli, appVars, histVars>>

\* _flushWsBroadcast(true) returns and the connect event is over
LockFlushLeave ==
    /\ tpc = "inflush"
    /\ \E base \in RaceBases(lk.conn) :
        \E b \in {FlushWsBroadcast(base, TRUE, Env)} :
            /\ SetBatch(b)
            /\ Deliver(b.out, clients)
            /\ op' = OpOf("connectFlush", b, <<>>, TRUE)
    /\ tpc' = "idle"
    /\ tcli' = 0
    /\ lk' = [lk EXCEPT !.conn = <<>>]
    /\ UNCHANGED <<cmds, files, etsVars, sunk, prod, ringVars, cfg, clients, now, queueVars, drainVars,
                   appVars, nextId, discarded>>

NextLock ==
    \/ Printf
    \/ DrainReceive
    \/ DrainTake
    \/ DrainGive
    \/ LockQueueEnter
    \/ LockQueueLeave
    \/ DrainTimeout
    \/ WsConnect
    \/ LockSnapTake
    \/ LockSnapGive
    \/ LockFlushEnter
    \/ LockFlushLeave
    \/ WsDisconnect

SpecLock == InitLock /\ [][NextLock]_vars

-----------------------------------------------------------------------------
(* _flushWsBroadcast in two steps, the client queues draining or filling
   between its two availableForWriteAll() reads (SpecNotice) *)

\* _flushWsBroadcast(force) up to and including _sendPendingWsDrop (lines
\* 235-260): the batch state, and whether the call goes on to line 262
FlushDropPart(b, force, e) ==
    IF Len(b.batch) = 0 THEN [b |-> b, go |-> FALSE]
    ELSE IF e.count = 0 THEN [b |-> [b EXCEPT !.batch = <<>>], go |-> FALSE]
    ELSE LET b1 == IF b.last = 0 THEN [b EXCEPT !.last = e.now] ELSE b
         IN  [b |-> SendPendingWsDrop(b1, e.now), go |-> ShouldFlush(b1, force, e)]

\* _flushWsBroadcast from line 262 on: the batch is sent when every client
\* queue has room
FlushBatchPart(b, e) ==
    IF b.free = 0 THEN b
    ELSE [TextAll(b, "batch", b.batch) EXCEPT !.batch = <<>>, !.last = e.now]

noticeRest ==
    <<sideVars, ringVars, cfg, clients, now, queueVars, task, cur, payload, mtx,
      connVars, appVars, histVars>>

\* _queueWsBroadcast(chunk), between two flushes
NoticeQueue == pc = "wait" /\ BatchQueue

\* a flush runs up to its pending notice
NoticeFlushDrop ==
    /\ pc = "wait"
    /\ \E force \in BOOLEAN :
        \E r \in {FlushDropPart(Batch, force, Env)} :
            /\ SetBatch(r.b)
            /\ pc' = IF r.go THEN "send" ELSE "wait"
            /\ op' = OpOf("flushDrop", r.b, <<>>, force)
    /\ UNCHANGED noticeRest

\* the flush reads the room of the client queues again and sends the batch
NoticeFlushBatch ==
    /\ pc = "send"
    /\ \E b \in {FlushBatchPart(Batch, Env)} :
           /\ SetBatch(b)
           /\ op' = OpOf("flushBatch", b, <<>>, FALSE)
    /\ pc' = "wait"
    /\ UNCHANGED noticeRest

NextNotice ==
    \/ NoticeQueue
    \/ NoticeFlushDrop
    \/ NoticeFlushBatch
    \/ BatchClients
    \/ TransportChange

SpecNotice == InitBatch /\ [][NextNotice]_vars

-----------------------------------------------------------------------------
(* The raw-character bridge: _etsPutcHook (SpecEts) *)

\* the buffer was built without the line terminator of lines 530-533
EtsBuildBare(lb, n) ==
    [i \in 1..(n + 2) |-> IF i <= n THEN lb[i] ELSE IF i = n + 1 THEN NUL ELSE Garbage]

\* lines 526-533: malloc(li + 2), the copy of lbuf, the terminators
EtsBuild(lb, n) ==
    IF n # 0 /\ lb[n] # NL
    THEN [i \in 1..(n + 2) |->
             IF i <= n THEN lb[i] ELSE IF i = n + 1 THEN NL ELSE NUL]
    ELSE [i \in 1..(n + 2) |->
             IF i <= n THEN lb[i] ELSE IF i = n + 1 THEN NUL ELSE Garbage]

\* the first k elements of s
Prefix(s, k) == [i \in 1..k |-> s[i]]

\* the C string in buf: the bytes before its first '\0'
CStr(buf) ==
    IF \E i \in DOMAIN buf : buf[i] = NUL
    THEN Prefix(buf, (CHOOSE i \in DOMAIN buf :
                         buf[i] = NUL /\ \A j \in 1..(i - 1) : buf[j] # NUL) - 1)
    ELSE buf

\* _etsPutcHook(c) on the statics st = [lbuf, li], mem telling whether malloc
\* finds memory: the statics after the call, whether the line was flushed,
\* the characters copied and the buffer built (empty: none)
EtsPutcHook(st, c, mem) ==
    LET stored == st.li < LbufSize - 1
        lb1 == [i \in 1..LbufSize |-> IF stored /\ i = st.li + 1 THEN c ELSE st.lbuf[i]]
        n1 == IF stored THEN st.li + 1 ELSE st.li
        ready == ~stored \/ c = NL
    IN  [lbuf |-> lb1, li |-> IF ready THEN 0 ELSE n1, ready |-> ready, n |-> n1,
         buf |-> IF ready /\ mem THEN EtsBuild(lb1, n1) ELSE <<>>]

\* the characters tried
EtsChars == {"a", "b", NL}

\* a queue that takes every line, or one that takes a single line
EtsCfgs == {[DefaultCfg EXCEPT !.queueLen = MaxPutc], [DefaultCfg EXCEPT !.queueLen = 1]}

\* the console with the hook installed; without a queue while setConfig
\* replaces it
InitEts ==
    /\ logbuf = NewRing(0).logbuf
    /\ bufCap = 0
    /\ used = 0
    /\ head = 0
    /\ pushed = <<>>
    /\ lastLine = <<>>
    /\ cfg \in EtsCfgs
    /\ wsBatch = <<>>
    /\ wsDropPending = FALSE
    /\ wsDropMessage = <<>>
    /\ lastWsFlushMs = 0
    /\ clients = {}
    /\ wsFree = MaxFree
    /\ now = 1
    /\ qLive \in BOOLEAN
    /\ qCap = IF qLive THEN cfg.queueLen ELSE 0
    /\ qItems = <<>>
    /\ task = TRUE
    /\ pc = "wait"
    /\ cur = <<>>
    /\ payload = <<>>
    /\ mtx = "free"
    /\ tpc = "idle"
    /\ tcli = 0
    /\ apc = "idle"
    /\ wasEnabled = TRUE
    /\ nextId = 1
    /\ seen = [c \in Clients |-> <<>>]
    /\ scTrace = <<>>
    /\ discarded = {}
    /\ SideIdle
    /\ op = NoOp

\* the ROM printf gives the hook one character
EtsPutc ==
    /\ Len(etsHist.in) < MaxPutc
    /\ \E c \in EtsChars, mem \in BOOLEAN, isr \in BOOLEAN :
        \E r \in {EtsPutcHook([lbuf |-> lbuf, li |-> li], c, mem)} :
            \E e \in {IF r.buf = <<>>
                       THEN [ret |-> FALSE, items |-> qItems, freed |-> FALSE]
                       ELSE IF qLive THEN EnqueueRaw(Queue, CStr(r.buf), isr)
                       ELSE [ret |-> FALSE, items |-> qItems, freed |-> TRUE]} :
                /\ lbuf' = r.lbuf
                /\ li' = r.li
                /\ qItems' = e.items
                /\ etsHist' = [in |-> Append(etsHist.in, c),
                               out |-> IF r.buf # <<>>
                                       THEN Append(etsHist.out,
                                                   [buf |-> r.buf, n |-> r.n, sent |-> e.ret])
                                       ELSE etsHist.out,
                               ok |-> etsHist.ok /\ (r.ready => e.ret)]
                /\ op' = [NoOp EXCEPT !.name = "putc", !.chunk = <<c>>, !.count0 = li,
                                      !.force = r.ready, !.raw = r.buf, !.ret = e.ret,
                                      !.freed = e.freed, !.q0 = qItems, !.cap0 = qCap,
                                      !.live0 = qLive]
    /\ UNCHANGED <<cmds, files, lk, sunk, prod, ringVars, cfg, batchVars, clients, wsFree,
                   now, qLive, qCap, drainVars, connVars, appVars, nextId, seen, discarded>>

NextEts == EtsPutc

SpecEts == InitEts /\ [][NextEts]_vars

-----------------------------------------------------------------------------
(* The consumer step by step: _drainTask and _processLine (SpecDrain) *)

\* the terminator added to every message, whatever it ends with
NormalizeAlways(data, extended) == Append(data, NL)

\* _drainTask: a message that is not empty and does not end with a line
\* terminator gets one when realloc returns memory
Normalize(data, extended) ==
    LET len == Len(data)
    IN  IF len # 0 /\ data[len] # NL /\ extended THEN Append(data, NL) ELSE data

\* _processLine: the payload built from data at millis() = t
ProcessPayload(c, data, t) ==
    IF c.timestamps THEN FormatTimestamp(t) \o data ELSE data

\* the sink `to` got `text`
Sunk(to, text) == [sunk EXCEPT !.events = Append(@, [to |-> to, text |-> text])]

\* the configurations tried: timestamps, the mirror output and the file
\* log each on or off
DrainCfgs ==
    {[queueLen |-> DefaultCfg.queueLen, timestamps |-> ts, maxLineLen |-> 0,
      wsBatchMaxBytes |-> DefaultCfg.wsBatchMaxBytes,
      wsFlushIntervalMs |-> DefaultCfg.wsFlushIntervalMs, mirrorOut |-> mo,
      fileLogEnable |-> en, maxFileSize |-> MaxRotated, maxFiles |-> 1] :
        ts \in BOOLEAN, mo \in BOOLEAN, en \in BOOLEAN}

\* the constructor, with one client connected
InitDrain ==
    /\ logbuf = NewRing(BacklogBytes).logbuf
    /\ bufCap = BacklogBytes
    /\ used = 0
    /\ head = 0
    /\ pushed = <<>>
    /\ lastLine = <<>>
    /\ cfg \in DrainCfgs
    /\ wsBatch = <<>>
    /\ wsDropPending = FALSE
    /\ wsDropMessage = <<>>
    /\ lastWsFlushMs = 0
    /\ clients = Clients
    /\ wsFree = MaxFree
    /\ now = MaxNow - 1
    /\ qLive = QueueCreate(cfg.queueLen).live
    /\ qCap = QueueCreate(cfg.queueLen).cap
    /\ qItems = QueueCreate(cfg.queueLen).items
    /\ task = TRUE
    /\ pc = "wait"
    /\ cur = <<>>
    /\ payload = <<>>
    /\ mtx = "free"
    /\ tpc = "idle"
    /\ tcli = 0
    /\ apc = "idle"
    /\ wasEnabled = FALSE
    /\ nextId = 1
    /\ seen = [c \in Clients |-> <<>>]
    /\ scTrace = <<>>
    /\ discarded = {}
    /\ SideIdle
    /\ op = NoOp

drainRest == <<cmds, lk, etsVars, prod, cfg, clients, now, qLive, qCap, task, connVars, appVars>>

\* _drainTask: xQueueReceive returns a message and the terminator is added
ConsumeReceive ==
    \E extended \in BOOLEAN :
        /\ pc = "wait"
        /\ qItems # <<>>
        /\ cur' = Normalize(Head(qItems), extended)
        /\ qItems' = Tail(qItems)
        /\ sunk' = [orig |-> Head(qItems), extended |-> extended, events |-> <<>>]
        /\ pc' = "take"
        /\ op' = NoOp
        /\ UNCHANGED <<drainRest, files, ringVars, batchVars, wsFree, payload, mtx,
                       histVars>>

\* _processLine: the payload is built, _mtx taken and the backlog written
ProcessTake ==
    /\ pc = "take"
    /\ mtx = "free"
    /\ \E line \in {ProcessPayload(cfg, cur, now)} :
           /\ payload' = line
           /\ SetRing(PushLine(Ring, line))
           /\ pushed' = LastN(pushed \o line, bufCap)
           /\ lastLine' = line
           /\ sunk' = Sunk("backlog", line)
    /\ mtx' = "drain"
    /\ pc' = "give"
    /\ op' = NoOp
    /\ UNCHANGED <<drainRest, files, batchVars, wsFree, qItems, cur, histVars>>

\* _processLine: _mtx given back
ProcessGive ==
    /\ pc = "give"
    /\ mtx' = "free"
    /\ pc' = "bcast"
    /\ op' = NoOp
    /\ UNCHANGED <<drainRest, files, sunk, ringVars, batchVars, wsFree, qItems, cur,
                   payload, histVars>>

\* _processLine: _queueWsBroadcast(payload)
ProcessBroadcast ==
    /\ pc = "bcast"
    /\ \E heap \in HeapOutcomes :
        \E b \in {QueueWsBroadcast(Batch, payload, Env, heap)} :
            /\ SetBatch(b)
            /\ Deliver(b.out, clients)
            /\ sunk' = Sunk("batcher", payload)
            /\ pc' = "mirror"
            /\ op' = OpOf("queue", b, payload, FALSE)
            /\ UNCHANGED <<drainRest, files, ringVars, qItems, cur, payload, mtx,
                           nextId, discarded>>

\* _processLine: the payload is printed on the mirror output, if there is one
ProcessMirror ==
    /\ pc = "mirror"
    /\ sunk' = IF cfg.mirrorOut THEN Sunk("mirror", payload) ELSE sunk
    /\ pc' = "file"
    /\ op' = NoOp
    /\ UNCHANGED <<drainRest, files, ringVars, batchVars, wsFree, qItems, cur, payload,
                   mtx, histVars>>

\* _processLine: the payload is appended to the log file, if that is enabled
ProcessFile ==
    /\ pc = "file"
    /\ files' = AppendToFile(files, cfg, payload)
    /\ sunk' = IF cfg.fileLogEnable THEN Sunk("file", payload) ELSE sunk
    /\ pc' = "free"
    /\ op' = [NoOp EXCEPT !.name = "append", !.chunk = payload, !.files0 = files]
    /\ UNCHANGED <<drainRest, ringVars, batchVars, wsFree, qItems, cur, payload, mtx,
                   histVars>>

\* _drainTask: free(msg.data)
ConsumeFree ==
    /\ pc = "free"
    /\ cur' = <<>>
    /\ payload' = <<>>
    /\ sunk' = NoSunk
    /\ pc' = "wait"
    /\ op' = [NoOp EXCEPT !.name = "processed", !.chunk = payload, !.raw = sunk.orig,
                          !.force = sunk.extended, !.trace = sunk.events,
                          !.freed = TRUE]
    /\ UNCHANGED <<drainRest, files, ringVars, batchVars, wsFree, qItems, mtx,
                   histVars>>

NextDrain ==
    \/ Printf
    \/ ConsumeReceive
    \/ ProcessTake
    \/ ProcessGive
    \/ ProcessBroadcast
    \/ ProcessMirror
    \/ ProcessFile
    \/ ConsumeFree

SpecDrain == InitDrain /\ [][NextDrain]_vars

-----------------------------------------------------------------------------
(* Producers against setConfig: _q read and used in two steps (SpecHandle) *)

\* _enqueueRaw, line 145, reached from printf: the buffer is formatted and
\* _q is tested; with no queue the call returns false
EnqueueEnter ==
    \E text \in MsgTexts(nextId), isr \in BOOLEAN :
        \E s \in {VsFormat(text, cfg.maxLineLen)} :
            /\ prod.pc = "idle"
            /\ nextId <= MaxMsgs
            /\ nextId' = nextId + 1
            /\ IF s = <<>> \/ ~qLive
               THEN /\ prod' = prod
                    /\ op' = [NoOp EXCEPT !.name = "enqueue", !.chunk = s,
                                          !.q0 = qItems, !.cap0 = qCap]
               ELSE /\ prod' = [pc |-> "send", data |-> s, isr |-> isr, stale |-> FALSE]
                    /\ op' = NoOp
            /\ UNCHANGED <<cmds, files, lk, etsVars, sunk, ringVars, cfg, batchVars,
                           clients, wsFree, now, queueVars, drainVars, connVars,
                           appVars, seen, discarded>>

\* _enqueueRaw, lines 149-161: xQueueSend or xQueueSendFromISR on _q, which
\* no lock protects.  The build either reads _q again (reload) or uses the
\* handle it tested.  A send on a null or deleted handle is undefined: it
\* may report success or failure, and the message reaches no queue.
EnqueueSend ==
    \E reload \in BOOLEAN, sent \in BOOLEAN :
        LET onLive == IF reload THEN qLive ELSE ~prod.stale
            r == IF onLive THEN EnqueueRaw(Queue, prod.data, prod.isr)
                 ELSE [ret |-> sent, items |-> qItems, freed |-> ~sent]
        IN  /\ prod.pc = "send"
            /\ qItems' = r.items
            /\ prod' = NoProd
            /\ op' = [NoOp EXCEPT !.name = "send", !.chunk = prod.data, !.ret = r.ret,
                                  !.freed = r.freed, !.q0 = qItems, !.cap0 = qCap,
                                  !.live0 = onLive]
            /\ UNCHANGED <<cmds, files, lk, etsVars, sunk, ringVars, cfg, batchVars,
                           clients, wsFree, now, qLive, qCap, drainVars, connVars,
                           appVars, histVars>>

\* setConfig, second part, seen from a producer: vQueueDelete(_q) and
\* _q = nullptr; a producer past line 145 holds the deleted handle
SetConfigDeleteUnder ==
    /\ apc = "qdel"
    /\ qLive' = FALSE
    /\ qItems' = <<>>
    /\ discarded' = IF qLive THEN discarded \cup QueuedIds ELSE discarded
    /\ scTrace' = IF qLive THEN Append(scTrace, "discard") ELSE scTrace
    /\ apc' = "qnew"
    /\ prod' = [prod EXCEPT !.stale = (prod.pc = "send")]
    /\ op' = NoOp
    /\ UNCHANGED <<cmds, files, lk, etsVars, sunk, ringVars, cfg, batchVars, clients,
                   wsFree, now, qCap, drainVars, connVars, wasEnabled, nextId, seen>>

NextHandle ==
    \/ EnqueueEnter
    \/ EnqueueSend
    \/ DrainReceive
    \/ DrainTake
    \/ DrainGive
    \/ DrainBroadcast
    \/ SetConfigStop
    \/ SetConfigDeleteUnder
    \/ SetConfigCreate

SpecHandle == Init /\ [][NextHandle]_vars

-----------------------------------------------------------------------------
(* Claims about the backlog ring (SpecRing) *)

\* C2: after any sequence of pushLineToBuffer calls on a backlog of capacity
\* C > 0, 0 <= used <= C and head < C, and the snapshot sendBacklog reads is a
\* suffix of the concatenation of all pushed lines, of length at most C.
C2_RingSuffix ==
    /\ 0 <= used /\ used <= bufCap
    /\ head >= 0 /\ head < bufCap
    /\ Len(Snapshot(Ring)) <= bufCap
    /\ IsSuffix(Snapshot(Ring), pushed)

\* the ring has wrapped: the window starts past slot 0 and runs over the end
C2_Witness ==
    /\ bufCap = MaxBufCap
    /\ head > 0
    /\ head + used > bufCap
    /\ Snapshot(Ring) = pushed

\* C3: pushing one line of length >= C, in any prior state, leaves head = 0 and
\* used = C, and the snapshot is exactly the last C bytes of that line.
C3_LongLine ==
    Len(lastLine) >= bufCap =>
        /\ head = 0
        /\ used = bufCap
        /\ Snapshot(Ring) = LastN(lastLine, bufCap)

\* a line longer than the capacity was pushed
C3_Witness ==
    /\ bufCap >= 2
    /\ Len(lastLine) > bufCap
    /\ Snapshot(Ring) = LastN(lastLine, bufCap)

-----------------------------------------------------------------------------
(* Claims about the batcher (SpecBatch) *)

OutIdx == 1..Len(op.out)

\* the writes the batcher issues from its own buffers
BatcherWrite(w) == w.kind \in {"batch", "drop"}

\* C5 as claimed: for every configured wsBatchMaxBytes, every batch flush and
\* every drop notice written to the transport has at most wsBatchMaxBytes
\* bytes.
C5_Original ==
    \A i \in OutIdx :
        BatcherWrite(op.out[i]) => Len(op.out[i].text) <= cfg.wsBatchMaxBytes

\* C5 as amended: with wsBatchMaxBytes > 0 the batch never holds, and no batch
\* flush ever writes, more than wsBatchMaxBytes bytes; a drop notice is a
\* write of its own whose length is that of its fixed text and its count.
C5_BatchBound ==
    /\ cfg.wsBatchMaxBytes > 0 =>
          /\ Len(wsBatch) <= cfg.wsBatchMaxBytes
          /\ \A i \in OutIdx :
                op.out[i].kind = "batch" =>
                    Len(op.out[i].text) <= cfg.wsBatchMaxBytes
    /\ \A i \in OutIdx :
          op.out[i].kind = "drop" =>
              \E n \in 1..cfg.wsBatchMaxBytes : op.out[i].text = DropNotice(n)

\* an oversized chunk was cut and later flushed as a full batch, after a notice
C5_Witness ==
    /\ op.name = "flush"
    /\ cfg.wsBatchMaxBytes > 0
    /\ \E i \in OutIdx :
          /\ op.out[i].kind = "batch"
          /\ Len(op.out[i].text) = cfg.wsBatchMaxBytes
    /\ \E i \in OutIdx : op.out[i].kind = "drop"

C7_Original ==
    op.lost > 0 /\ op.count0 > 0 =>
        \/ wsDropPending
        \/ \E i \in OutIdx : op.out[i].kind = "drop"

\* C8: a flush attempt, forced or not, made while clients are connected and
\* the transport has no room writes nothing and leaves the batch as it was.
C8_FlushDeferred ==
    op.name = "flush" /\ op.count0 > 0 /\ op.free0 = 0 =>
        /\ op.out = <<>>
        /\ wsBatch = op.batch0

\* a forced flush of a pending batch that found the transport full
C8_Witness ==
    /\ op.name = "flush"
    /\ op.force
    /\ op.count0 > 0
    /\ op.free0 = 0
    /\ op.batch0 # <<>>
    /\ wsBatch = op.batch0

-----------------------------------------------------------------------------
(* Claims about the pipeline (Spec) *)

StrictlyIncreasing(s) == \A i, j \in DOMAIN s : i < j => s[i] < s[j]

\* C1 as claimed: the log lines a subscriber has received since it connected
\* (backlog replay, immediate sends and batch flushes together) are in the
\* order in which their messages entered the queue, and none is there twice.
C1_Original == \A c \in Clients : StrictlyIncreasing(seen[c])

\* C4: the queue never holds more than its capacity, and an enqueue on a
\* live queue that already holds capacity messages, made from a task or from
\* an interrupt, returns false, frees the new buffer and leaves the queue as
\* it was.
C4_EnqueueBounded ==
    /\ Len(qItems) <= qCap
    /\ (op.name = "printf" /\ op.chunk # <<>> /\ op.live0 /\ Len(op.q0) = op.cap0) =>
           /\ ~op.ret
           /\ op.freed
           /\ qItems = op.q0

\* an enqueue was refused by a full queue
C4_Witness ==
    /\ op.name = "printf"
    /\ op.chunk # <<>>
    /\ op.live0
    /\ op.cap0 > 0
    /\ Len(op.q0) = op.cap0
    /\ ~op.ret
    /\ op.freed
    /\ Len(qItems) = qCap

\* C9: a receive timeout of the consumer (non-zero flush interval, no message
\* waiting) that finds a subscriber, a non-empty batch and a transport with
\* room transmits: with no drop notice pending it sends exactly the batch and
\* empties it; with one pending it sends the notice first and, when the
\* transport still has room after the notice, the batch as well.
C9_TimeoutFlush ==
    (op.name = "timeout" /\ op.count0 > 0 /\ op.batch0 # <<>> /\ op.free0 > 0) =>
        IF op.pend0
        THEN /\ Len(op.out) >= 1
             /\ op.out[1].kind = "drop"
             /\ op.out[1].ok
             /\ op.free0 >= 2 =>
                    /\ Len(op.out) = 2
                    /\ op.out[2] = [kind |-> "batch", text |-> op.batch0, ok |-> TRUE]
                    /\ wsBatch = <<>>
        ELSE /\ op.out = <<[kind |-> "batch", text |-> op.batch0, ok |-> TRUE]>>
             /\ wsBatch = <<>>

\* a receive timeout sent a batch that had been waiting for the transport
C9_Witness ==
    /\ op.name = "timeout"
    /\ op.count0 > 0
    /\ op.batch0 # <<>>
    /\ op.free0 > 0
    /\ cfg.wsFlushIntervalMs > 0
    /\ Len(op.out) = 1
    /\ op.out[1].kind = "batch"
    /\ op.out[1].ok
    /\ wsBatch = <<>>

\* the messages whose letters occur in a text
IdsIn(text) == {IdOf(text[i]) : i \in {k \in DOMAIN text : IsMsgLetter(text[k])}}

\* the messages some subscriber has received
SeenIds == UNION {{seen[c][i] : i \in DOMAIN seen[c]} : c \in Clients}

-----------------------------------------------------------------------------
(* Claims about the commands (SpecCmd) *)

\* the entries of the registry whose name equals tok ignoring case
Matches(cs, tok) == {k \in DOMAIN cs : EqualsIgnoreCase(tok, cs[k].name)}

Least(S) == CHOOSE k \in S : \A j \in S : k <= j

\* the first token, the empty text when there is none
FirstToken(argv) == IF argv = <<>> THEN <<>> ELSE argv[1]

\* the reply of dispatch when at least one token is there
RoutedReply ==
    IF FirstToken(op.argv) = WordHelp
    THEN op.hit = 0 /\ op.reply = HelpText(cmds)
    ELSE IF Matches(cmds, FirstToken(op.argv)) # {}
    THEN /\ op.hit = Least(Matches(cmds, FirstToken(op.argv)))
         /\ op.reply = RunHandler(cmds[op.hit].fn, op.argv)
    ELSE op.hit = 0 /\ op.reply = UnknownReply

\* C11 as claimed: input that is empty after trimming gets the empty reply;
\* any other input is routed by its first token: "help" gets the listing,
\* the first entry of that name (ignoring case) gets the call, and with no
\* such entry the reply is the unknown-command text.
C11_Original ==
    op.name = "dispatch" =>
        IF Trim(op.raw) = <<>> THEN op.hit = 0 /\ op.reply = <<>>
        ELSE RoutedReply

\* C11: input that is empty after trimming, or holds no token (nothing but
\* double quotes), gets the empty reply and no handler runs; any other
\* input is routed by its first token: exactly "help" gets the listing;
\* otherwise the first entry, in registration order, whose name equals the
\* token ignoring case runs with all the tokens and its result is the reply;
\* with no such entry the reply is the unknown-command text.
C11_Dispatch ==
    op.name = "dispatch" =>
        IF Trim(op.raw) = <<>> \/ op.argv = <<>> THEN op.hit = 0 /\ op.reply = <<>>
        ELSE RoutedReply

\* a command line in capitals ran the first of two entries of that name
C11_Witness ==
    /\ op.name = "dispatch"
    /\ op.hit = 1
    /\ Cardinality(Matches(cmds, op.argv[1])) = 2
    /\ op.argv[1] # cmds[1].name
    /\ op.reply = RunHandler(cmds[1].fn, op.argv)

\* the double quotes of s before position i
QuotesBefore(s, i) == Cardinality({k \in 1..(i - 1) : s[k] = QUOTE})

\* position i of s holds a space or a tab outside double quotes
IsSep(s, i) == s[i] \in {" ", TAB} /\ QuotesBefore(s, i) % 2 = 0

NotQuote(ch) == ch # QUOTE

\* the tokens of s from position i on: the maximal runs of positions that
\* are not separators, without their double quotes, the empty ones left out
RECURSIVE RunsFrom(_, _)
RunsFrom(s, i) ==
    IF i > Len(s) THEN <<>>
    ELSE IF IsSep(s, i) THEN RunsFrom(s, i + 1)
    ELSE LET b == CHOOSE e \in i..Len(s) :
                      /\ \A k \in i..e : ~IsSep(s, k)
                      /\ (e = Len(s) \/ IsSep(s, e + 1))
             tok == SelectSeq(SubSeq(s, i, b), NotQuote)
         IN  (IF tok # <<>> THEN <<tok>> ELSE <<>>) \o RunsFrom(s, b + 1)

ClaimTokens(s) == RunsFrom(s, 1)

LineQuoted == WordEcho \o <<" ", QUOTE, "a", " ", "b", QUOTE, " ", "c">>

LineOneTwo == WordEcho \o <<" ", "o", "n", "e", " ", "t", "w", "o">>

\* C12 as claimed: the handler gets every token of the trimmed line, split at
\* the spaces and tabs outside double quotes, the quotes removed.
C12_Original ==
    op.name = "dispatch" => op.argv = ClaimTokens(Trim(op.raw))

\* C12: the tokens are those of the trimmed line split at the spaces and tabs
\* outside double quotes, the quotes removed (an unbalanced quote keeps the
\* rest of the line in one token), but only the first _maxArgs = 12 of them
\* reach the handler; echo "a b" c gives echo, a b, c and the echo handler
\* answers "one two\n" to echo one two.
C12_Tokens ==
    op.name = "dispatch" =>
        /\ op.argv = SubSeq(ClaimTokens(Trim(op.raw)), 1,
                            Min(MaxArgs, Len(ClaimTokens(Trim(op.raw)))))
        /\ op.raw = LineQuoted => op.argv = <<WordEcho, <<"a", " ", "b">>, <<"c">>>>
        /\ (op.raw = LineOneTwo /\ op.hit # 0 /\ cmds[op.hit].fn = "echo") =>
               op.reply = <<"o", "n", "e", " ", "t", "w", "o", NL>>

\* a line of more than 12 tokens was dispatched to the echo handler
C12_Witness ==
    /\ op.name = "dispatch"
    /\ Len(ClaimTokens(Trim(op.raw))) > MaxArgs
    /\ Len(op.argv) = MaxArgs
    /\ op.hit # 0
    /\ cmds[op.hit].fn = "echo"

\* C13: addCommand returns false and leaves the registry as it was when the
\* name is null or empty, the handler is absent or the registry holds
\* _maxCmds entries; otherwise it returns true and the registry is the old
\* one with the new entry at its end; the registry never holds more than
\* _maxCmds entries.
C13_AddCommand ==
    /\ Len(cmds) <= MaxCmds
    /\ op.name = "addCommand" =>
           IF \/ op.raw.name = Null
              \/ op.raw.name = <<>>
              \/ op.raw.fn = NoHandler
              \/ Len(op.cmds0) >= MaxCmds
           THEN ~op.ret /\ cmds = op.cmds0
           ELSE /\ op.ret
                /\ Len(cmds) = Len(op.cmds0) + 1
                /\ SubSeq(cmds, 1, Len(op.cmds0)) = op.cmds0
                /\ cmds[Len(cmds)].name = op.raw.name
                /\ cmds[Len(cmds)].fn = op.raw.fn

\* a valid registration was refused by a full registry
C13_Witness ==
    /\ op.name = "addCommand"
    /\ op.raw = CmdFiller
    /\ Len(op.cmds0) = MaxCmds
    /\ ~op.ret
    /\ cmds = op.cmds0

-----------------------------------------------------------------------------
(* Claims about the log bridge and the line-length limit (SpecBridge) *)

IsLetter(c) == \E k \in DOMAIN Uppers : c = Uppers[k] \/ c = Lowers[k]

\* the index after the ANSI escape that starts at index i of s: the escape
\* character alone, or the sequence from "[" to its final "m"
AnsiNext(s, i) ==
    IF i < Len(s) /\ s[i + 1] = "["
    THEN IF {k \in (i + 2)..Len(s) : s[k] = "m"} = {} THEN Len(s) + 1
         ELSE Least({k \in (i + 2)..Len(s) : s[k] = "m"}) + 1
    ELSE i + 1

\* the severity the claim gives to s, read from index i on: escapes are
\* skipped, a marker decides, any other letter or "[" gives unknown
RECURSIVE ClaimLevel(_, _)
ClaimLevel(s, i) ==
    IF i > Len(s) \/ i > ScanLen THEN LogNone
    ELSE IF s[i] = ESC THEN ClaimLevel(s, AnsiNext(s, i))
    ELSE IF s[i] = "E" THEN LogError
    ELSE IF s[i] = "W" THEN LogWarn
    ELSE IF s[i] = "I" THEN LogInfo
    ELSE IF s[i] = "D" THEN LogDebug
    ELSE IF s[i] = "V" THEN LogVerbose
    ELSE IF IsLetter(s[i]) \/ s[i] = "[" THEN LogNone
    ELSE ClaimLevel(s, i + 1)

\* C14 as claimed: the severity of a rendered line is that of the first of
\* E, W, I, D, V among its first 8 characters, an ANSI escape prefix being
\* skipped; any other letter or "[" met before a marker gives unknown.
C14_Original ==
    (op.name = "shim" /\ op.chunk # <<>>) => op.level = ClaimLevel(op.chunk, 1)

\* the line has room in the queue or the queue is full
HadRoom == Len(op.q0) < op.cap0

\* C15: the bridge hands a rendered line to the queue if and only if its
\* severity is unknown or at most the configured maximum (error < warning <
\* info < debug < verbose); a queue with room then holds it as its newest
\* message; every other line is freed and the queue keeps its contents.
C15_Filter ==
    (op.name = "shim" /\ op.live0 /\ op.chunk # <<>>) =>
        IF op.level = LogNone \/ op.level <= cfg.syslogMaxLevel
        THEN IF HadRoom
             THEN qItems = Append(op.q0, op.chunk) /\ ~op.freed
             ELSE qItems = op.q0 /\ op.freed /\ ~op.ret
        ELSE qItems = op.q0 /\ op.freed

\* a line above the maximum severity was discarded though the queue had room
C15_Witness ==
    /\ op.name = "shim"
    /\ op.live0
    /\ HadRoom
    /\ op.level = cfg.syslogMaxLevel + 1
    /\ op.freed
    /\ qItems = op.q0

\* C17 as claimed: with a maximum line length M > 0 no queued text is longer
\* than M characters; with M = 0 the whole formatted text is queued.
C17_Original ==
    /\ cfg.maxLineLen > 0 =>
           \A i \in DOMAIN qItems : Len(qItems[i]) <= cfg.maxLineLen
    /\ (cfg.maxLineLen = 0 /\ op.name \in {"print", "shim"}
            /\ Len(qItems) > Len(op.q0)) =>
           qItems[Len(qItems)] = op.raw

-----------------------------------------------------------------------------
(* Claims about the log file (SpecFile) *)

\* the rotated files that exist in the file system fs
Rotated(fs) == {i \in 1..(MaxRotated + 1) : fs[i] # Absent}

\* the append found the active file larger than the maximum size
Oversized == op.files0[0] # Absent /\ Len(op.files0[0]) > cfg.maxFileSize

\* what an append does to the files, the bound on the rotated files left out
AppendEffect ==
    (op.name = "append" /\ cfg.fileLogEnable) =>
        IF Oversized
        THEN /\ files[0] = op.chunk
             /\ files[1] = op.files0[0]
             /\ \A i \in 1..(cfg.maxFiles - 1) : files[i + 1] = op.files0[i]
             /\ (cfg.maxFiles >= 1 /\ op.files0[cfg.maxFiles] # Absent) =>
                    \A i \in 0..(MaxRotated + 1) : files[i] # op.files0[cfg.maxFiles]
        ELSE /\ files[0] = (IF op.files0[0] = Absent THEN <<>> ELSE op.files0[0])
                              \o op.chunk
             /\ \A i \in 1..(MaxRotated + 1) : files[i] = op.files0[i]

-----------------------------------------------------------------------------
(* Claims about locking (SpecLock) *)

\* C18 as claimed: the connect handler and the consumer are never at the
\* same time in their code that reads or writes the backlog ring, nor at the
\* same time in their code that reads or writes the batch state.
C18_Original ==
    /\ ~(pc = "give" /\ tpc = "snap")
    /\ ~(pc = "inq" /\ tpc = "inflush")

-----------------------------------------------------------------------------
(* Claims about buffer ownership and the life of the consumer (Spec) *)

\* C19 as claimed: a buffer the enqueue path refuses is released by it: a
\* print whose enqueue reports failure has freed its buffer.
C19_Original ==
    (op.name = "printf" /\ op.chunk # <<>> /\ ~op.ret) => op.freed

\* C20 as claimed: whenever no API call is in progress the consumer task is
\* running.
C20_Original == apc = "idle" => task

-----------------------------------------------------------------------------
(* Claims about the order of the drop notice (SpecNotice) *)

\* the writes of the latest step that reached the clients
OkWrites == SelectSeq(op.out, LAMBDA w : w.ok)

IsLogText(w) == w.kind \in {"line", "batch"}

\* C21 as claimed: a step that starts with a notice pending writes the
\* notice before any log text, and no step ends with a notice pending after
\* log text was its latest write.
C21_Original ==
    /\ (op.pend0 /\ OkWrites # <<>>) => OkWrites[1].kind = "drop"
    /\ (wsDropPending /\ OkWrites # <<>>) => ~IsLogText(OkWrites[Len(OkWrites)])

-----------------------------------------------------------------------------
(* Claims about the raw-character bridge (SpecEts) *)

\* C23: the hook flushes its line exactly when the character is a newline or
\* the line buffer is full, and then the buffer is empty again; the message
\* it builds is null-terminated, not empty and ends with a newline, and goes
\* to the queue when there is one; the index stays below the buffer size.
C23_Flush ==
    /\ li <= LbufSize - 1
    /\ op.name = "putc" =>
           /\ op.force <=> (op.chunk = <<NL>> \/ op.count0 = LbufSize - 1)
           /\ op.force => li = 0
           /\ ~op.force => (li = op.count0 + 1 /\ qItems = op.q0 /\ op.raw = <<>>)
           /\ op.raw # <<>> =>
                  /\ \E i \in DOMAIN op.raw : op.raw[i] = NUL
                  /\ CStr(op.raw) # <<>>
                  /\ CStr(op.raw)[Len(CStr(op.raw))] = NL
                  /\ IF op.live0 /\ Len(op.q0) < op.cap0
                     THEN qItems = Append(op.q0, CStr(op.raw))
                     ELSE qItems = op.q0 /\ op.freed

\* a character that arrived at a full buffer flushed a line that the hook
\* had to terminate itself
C23_Witness ==
    /\ op.name = "putc"
    /\ op.count0 = LbufSize - 1
    /\ op.chunk # <<NL>>
    /\ op.force
    /\ li = 0
    /\ Len(CStr(op.raw)) = LbufSize
    /\ qItems = Append(op.q0, CStr(op.raw))

\* the characters the hook copied into message m
EtsCopied(m) == Prefix(m.buf, m.n)

RECURSIVE EtsKept(_)
EtsKept(out) == IF out = <<>> THEN <<>> ELSE EtsCopied(Head(out)) \o EtsKept(Tail(out))

\* C24 as claimed: while every allocation and enqueue succeeded, the
\* messages without the newlines the hook added, followed by the characters
\* still buffered, are the input.
C24_Original ==
    etsHist.ok => EtsKept(etsHist.out) \o Prefix(lbuf, li) = etsHist.in

-----------------------------------------------------------------------------
(* Claims about the four sinks of the consumer (SpecDrain) *)

EndsNL(t) == t # <<>> /\ t[Len(t)] = NL

\* the sinks a processed message went through, in order
SinkOrder ==
    <<"backlog", "batcher">> \o (IF cfg.mirrorOut THEN <<"mirror">> ELSE <<>>)
        \o (IF cfg.fileLogEnable THEN <<"file">> ELSE <<>>)

\* every enabled sink, in the order of the claim, got the text want
SunkAll(want) ==
    /\ Len(op.trace) = Len(SinkOrder)
    /\ \A i \in DOMAIN op.trace :
           op.trace[i].to = SinkOrder[i] /\ op.trace[i].text = want

Stamped(body) == IF cfg.timestamps THEN FormatTimestamp(now) \o body ELSE body

-----------------------------------------------------------------------------
(* Claims about the backlog lock and the stops of the consumer (Spec) *)

\* C25 as stated: the backlog lock is never left held forever.  Whenever
\* _mtx is held for the backlog write its holder, the consumer, is alive and
\* at the xSemaphoreGive that releases it, whatever setConfig and
\* disableEspLogBridge did in between; a lock whose holder was deleted is
\* released by nobody, and the backlog read of a connect event and the
\* backlog write of a restarted consumer wait for it for ever.
C25_Original == mtx = "drain" => (task /\ pc = "give")

-----------------------------------------------------------------------------
(* Claims about producers and the deleted queue (SpecHandle) *)

\* C26 as stated: no producer operates on a deleted queue.  Every send of
\* _enqueueRaw goes to a live queue, and an enqueue that found no queue
\* failed and released its buffer, in every interleaving with setConfig.
C26_Original ==
    /\ op.name = "send" => op.live0
    /\ (op.name = "enqueue" /\ op.chunk # <<>>) => (~op.ret /\ op.freed)

=============================================================================
